---- MODULE Spec2Model ----
(***************************************************************************)
(* Sarabanda: the quiz-game controller.  The model covers the character    *)
(* pool helpers (gameHelpers), the phase state machine (stateUpdates), the *)
(* Remote screen's handlers that drive it, and the localStorage-backed     *)
(* StorageProvider that shares state between tabs.                         *)
(*                                                                         *)
(* Strings are sequences of one-character strings, arrays are sequences,   *)
(* objects are records or functions.  Points are counted in half points   *)
(* (0.5 -> 1), the smallest step the score inputs offer.                   *)
(***************************************************************************)
EXTENDS Integers, Sequences, FiniteSets, TLC

\* Math.random() is modelled as rand / RandomSteps for rand in 0 .. RandomSteps - 1
RandomSteps == 3

\* awards stop once the history holds this many rounds
MaxHistory == 2

\* the largest number of rounds the operator configures
MaxRounds == 2

\* the clock stops after this many steps
MaxClockSteps == 1

(***************************************************************************)
(* Strings                                                                 *)
(***************************************************************************)

\* UTF-16 code unit of the characters the model uses (String.prototype.sort order)
Code(c) ==
  CASE c = " " -> 32
    [] c = "A" -> 65
    [] c = "B" -> 66
    [] c = "_" -> 95
    [] c = "a" -> 97
    [] c = "b" -> 98

\* String.prototype.toLowerCase on one character
LowerChar(c) ==
  CASE c = "A" -> "a"
    [] c = "B" -> "b"
    [] OTHER -> c

ToLowerCase(s) == [i \in 1..Len(s) |-> LowerChar(s[i])]

\* s.replace(/\s+/g, '_'): every maximal run of whitespace becomes one underscore
RECURSIVE ReplaceWhitespace(_)
ReplaceWhitespace(s) ==
  IF s = <<>> THEN <<>>
  ELSE IF s[1] = " "
       THEN IF Len(s) > 1 /\ s[2] = " "
            THEN ReplaceWhitespace(Tail(s))
            ELSE <<"_">> \o ReplaceWhitespace(Tail(s))
       ELSE <<s[1]>> \o ReplaceWhitespace(Tail(s))

\* a < b in the order Array.prototype.sort uses by default (code units, shorter first)
RECURSIVE StrLess(_, _)
StrLess(a, b) ==
  IF b = <<>> THEN FALSE
  ELSE IF a = <<>> THEN TRUE
  ELSE IF Code(a[1]) # Code(b[1]) THEN Code(a[1]) < Code(b[1])
  ELSE StrLess(Tail(a), Tail(b))

\* insertion of x into a sorted sequence of strings, after its equals (stable)
RECURSIVE InsertSorted(_, _)
InsertSorted(x, xs) ==
  IF xs = <<>> THEN <<x>>
  ELSE IF StrLess(x, xs[1]) THEN <<x>> \o xs
  ELSE <<xs[1]>> \o InsertSorted(x, Tail(xs))

\* Array.prototype.sort() without a comparator on an array of strings
RECURSIVE SortStrings(_)
SortStrings(xs) ==
  IF xs = <<>> THEN <<>>
  ELSE InsertSorted(xs[Len(xs)], SortStrings(SubSeq(xs, 1, Len(xs) - 1)))

\* Array.prototype.join('_')
RECURSIVE JoinUnderscore(_)
JoinUnderscore(xs) ==
  IF xs = <<>> THEN <<>>
  ELSE IF Len(xs) = 1 THEN xs[1]
  ELSE xs[1] \o <<"_">> \o JoinUnderscore(Tail(xs))

\* Array.prototype.includes
Includes(xs, x) == \E i \in 1..Len(xs) : xs[i] = x

\* the decimal digits
DigitChars == <<"0", "1", "2", "3", "4", "5", "6", "7", "8", "9">>

DigitOf(ch) == CHOOSE d \in 0..9 : DigitChars[d + 1] = ch
IsDigit(ch) == \E d \in 0..9 : DigitChars[d + 1] = ch

(***************************************************************************)
(* Character pool helpers                                                  *)
(***************************************************************************)

\* character.props: a list of [k, v] entries in insertion order
PropKeysOf(character) == [i \in 1..Len(character.props) |-> character.props[i].k]

\* character.props[key] || ''
PropValue(character, key) ==
  IF \E i \in 1..Len(character.props) : character.props[i].k = key
  THEN LET i == CHOOSE j \in 1..Len(character.props) : character.props[j].k = key
       IN character.props[i].v
  ELSE <<>>

\* char.tags[tagKey] || []
TagValuesOf(char, tagKey) ==
  IF tagKey \in DOMAIN char.tags THEN char.tags[tagKey] ELSE <<>>

\* createCharacterId taking the prop keys in their column order
createCharacterIdInColumnOrder(character) ==
  LET propKeys   == PropKeysOf(character)
      propValues == JoinUnderscore([i \in 1..Len(propKeys) |-> PropValue(character, propKeys[i])])
      categories == JoinUnderscore(SortStrings(TagValuesOf(character, "category")))
  IN ReplaceWhitespace(ToLowerCase(propValues \o <<"_">> \o categories))

createCharacterId(character) ==
  LET propKeys   == SortStrings(PropKeysOf(character))
      propValues == JoinUnderscore([i \in 1..Len(propKeys) |-> PropValue(character, propKeys[i])])
      categories == JoinUnderscore(SortStrings(TagValuesOf(character, "category")))
  IN ReplaceWhitespace(ToLowerCase(propValues \o <<"_">> \o categories))

\* the character createCharacterId was given, after the call: Array.prototype.sort
\* sorts character.tags.category in place (the [] of a missing key is a new array)
createCharacterIdArgument(character) ==
  IF "category" \in DOMAIN character.tags
  THEN [character EXCEPT !.tags.category = SortStrings(@)]
  ELSE character

\* matchesTagFilters asking for every value of the character to be selected
matchesTagFiltersEveryValue(char, selectedTags) ==
  \A tagKey \in DOMAIN selectedTags :
    LET selectedValues == selectedTags[tagKey]
        charTagValues  == TagValuesOf(char, tagKey)
    IN \/ Len(selectedValues) = 0
       \/ \A i \in 1..Len(charTagValues) : Includes(selectedValues, charTagValues[i])

\* matchesTagFilters looking only at the last selected value of each tag key
matchesTagFiltersLastSelected(char, selectedTags) ==
  \A tagKey \in DOMAIN selectedTags :
    LET selectedValues == selectedTags[tagKey]
        charTagValues  == TagValuesOf(char, tagKey)
    IN \/ Len(selectedValues) = 0
       \/ Includes(charTagValues, selectedValues[Len(selectedValues)])

\* matchesTagFilters(char, selectedTags): selectedTags maps each tag key to the
\* array of selected values
matchesTagFilters(char, selectedTags) ==
  \A tagKey \in DOMAIN selectedTags :
    LET selectedValues == selectedTags[tagKey]
        charTagValues  == TagValuesOf(char, tagKey)
    IN \/ Len(selectedValues) = 0
       \/ \E i \in 1..Len(charTagValues) : Includes(selectedValues, charTagValues[i])

\* state.config.selectedTags: the tag filters of the configuration, by tag key
SelectedTagsOf(cfg) ==
  [category |-> cfg.selectedCategories, difficulty |-> cfg.selectedDifficulties]

\* IsAvailable looking only at the first category of the character
IsAvailableByFirstCategory(st, char) ==
  /\ ~Includes(st.usedCharacters, createCharacterId(char))
  /\ matchesTagFilters([char EXCEPT !.tags.category = SubSeq(@, 1, 1)], SelectedTagsOf(st.config))

IsAvailable(st, char) ==
  /\ ~Includes(st.usedCharacters, createCharacterId(char))
  /\ matchesTagFilters(char, SelectedTagsOf(st.config))

\* getAvailableCharacters without the used-id test
getAvailableCharactersIgnoringUsed(st) ==
  LET Keep(char) == matchesTagFilters(char, SelectedTagsOf(st.config))
  IN SelectSeq(st.characters, Keep)

getAvailableCharacters(st) ==
  LET Keep(char) == IsAvailable(st, char)
  IN SelectSeq(st.characters, Keep)

\* categoryMap.get(category) || { remainingCharacters: 0, totalCharacters: 0 }
CountsOf(categoryMap, category) ==
  IF \E i \in 1..Len(categoryMap) : categoryMap[i].name = category
  THEN LET i == CHOOSE i \in 1..Len(categoryMap) : categoryMap[i].name = category
       IN  [remainingCharacters |-> categoryMap[i].remainingCharacters,
            totalCharacters     |-> categoryMap[i].totalCharacters]
  ELSE [remainingCharacters |-> 0, totalCharacters |-> 0]

\* categoryMap.set(category, counts): a Map keeps its keys in insertion order
MapSet(categoryMap, category, counts) ==
  LET entry == [name                |-> category,
                remainingCharacters |-> counts.remainingCharacters,
                totalCharacters     |-> counts.totalCharacters]
  IN  IF \E i \in 1..Len(categoryMap) : categoryMap[i].name = category
      THEN [i \in 1..Len(categoryMap) |->
              IF categoryMap[i].name = category THEN entry ELSE categoryMap[i]]
      ELSE Append(categoryMap, entry)

\* categories.forEach: totalCharacters + 1, and remainingCharacters + remaining
RECURSIVE CountCategories(_, _, _)
CountCategories(categories, categoryMap, remaining) ==
  IF categories = <<>> THEN categoryMap
  ELSE LET existing == CountsOf(categoryMap, Head(categories))
       IN  CountCategories(Tail(categories),
                           MapSet(categoryMap, Head(categories),
                                  [remainingCharacters |-> existing.remainingCharacters + remaining,
                                   totalCharacters     |-> existing.totalCharacters + 1]),
                           remaining)

\* chars.forEach over the categories of each character
RECURSIVE CountCharacters(_, _, _)
CountCharacters(chars, categoryMap, remaining) ==
  IF chars = <<>> THEN categoryMap
  ELSE CountCharacters(Tail(chars),
                       CountCategories(TagValuesOf(Head(chars), "category"), categoryMap, remaining),
                       remaining)

\* a first pass over the available characters (remaining and total + 1), a second over
\* every character that matches the filters (total + 1)
getCategories(st) ==
  LET availableChars == getAvailableCharacters(st)
      Matches(char)  == matchesTagFilters(char, SelectedTagsOf(st.config))
  IN  CountCharacters(SelectSeq(st.characters, Matches),
                      CountCharacters(availableChars, <<>>, 1), 0)

(***************************************************************************)
(* Game data                                                               *)
(***************************************************************************)

\* currentCharacter: null
NullCharacter == [null |-> TRUE]

\* currentCategory: null
NullCategory == <<"null">>

\* currentTeamIndex: null (team indexes count from 0, as in the code)
NullIndex == -1

\* timerEndsAt: null
NullTime == -1

\* a score is a multiple of 0.5 and is kept as its number of halves,
\* in the configuration as in the game
Halves(points) == 2 * points

initialGameConfig ==
  [ numberOfRounds       |-> 10,
    freeTurnDuration     |-> 30,
    nthTurnDurations     |-> <<60, 60>>,
    teamNames            |-> <<"Team A", "Team B">>,
    selectedDifficulties |-> <<>>,
    selectedCategories   |-> <<>>,
    freeTurnScore        |-> Halves(1),
    nthTurnScores        |-> <<Halves(4), Halves(2)>> ]

\* initialGameStatus, with the timerEndsAt: null the Remote screen's migration adds
initialGameStatus ==
  [ phase            |-> "prepping",
    config           |-> initialGameConfig,
    characters       |-> <<>>,
    usedCharacters   |-> <<>>,
    currentRound     |-> 0,
    currentCategory  |-> NullCategory,
    currentCharacter |-> NullCharacter,
    scores           |-> <<>>,
    gameHistory      |-> <<>>,
    isGameActive     |-> FALSE,
    isTimerRunning   |-> FALSE,
    timeRemaining    |-> 0,
    timerEndsAt      |-> NullTime,
    hintsRevealed    |-> 0,
    currentTurn      |-> 0,
    currentTeamIndex |-> NullIndex,
    turnType         |-> "team" ]

\* scores[team] || 0
ScoreOf(scores, team) == IF team \in DOMAIN scores THEN scores[team] ELSE 0

\* { ...scores, [team]: value }
WithScore(scores, team, value) ==
  [t \in DOMAIN scores \cup {team} |-> IF t = team THEN value ELSE scores[t]]

\* the names in a teamNames array
TeamSet(teamNames) == {teamNames[i] : i \in 1..Len(teamNames)}

(***************************************************************************)
(* State update helpers (stateUpdates)                                     *)
(***************************************************************************)

updateConfig(st, cfg) == [st EXCEPT !.config = cfg]

updateCharacters(st, characters) == [st EXCEPT !.characters = characters]

\* Math.floor(Math.random() * length), as a 1-based index; rand / RandomSteps is
\* the value Math.random() returned
RandomIndex(rand, length) == ((rand * length) \div RandomSteps) + 1

\* null when nothing is available
rollCharacterForRound(st, rand) ==
  LET availableCharacters == getAvailableCharacters(st)
  IN IF Len(availableCharacters) = 0
     THEN NullCharacter
     ELSE availableCharacters[RandomIndex(rand, Len(availableCharacters))]

\* rolledCharacter.category: the character's category
CategoryOf(char) ==
  IF Len(TagValuesOf(char, "category")) = 0
  THEN NullCategory
  ELSE TagValuesOf(char, "category")[1]

\* the reduce over config.teamNames that gives every team 0
InitialScores(teamNames) == [t \in TeamSet(teamNames) |-> 0]

\* transitionToChoosing starting a game on top of the tables of the last one
transitionToChoosingKeepsTables(st, rand) ==
  IF Len(st.characters) = 0 THEN st
  ELSE IF Len(st.config.selectedDifficulties) = 0 \/ Len(st.config.selectedCategories) = 0 THEN st
  ELSE
    LET newState ==
          IF st.phase = "prepping"
          THEN [st EXCEPT !.isGameActive = TRUE,
                          !.currentRound = 1,
                          !.hintsRevealed = 0]
          ELSE IF st.phase = "guessing"
          THEN [st EXCEPT !.currentRound = st.currentRound + 1]
          ELSE st
        rolledCharacter == rollCharacterForRound(newState, rand)
    IN IF rolledCharacter = NullCharacter
       THEN st
       ELSE [newState EXCEPT !.phase = "choosing",
                             !.currentCharacter = rolledCharacter,
                             !.currentCategory = CategoryOf(rolledCharacter)]

transitionToChoosing(st, rand) ==
  IF Len(st.characters) = 0 THEN st
  ELSE IF Len(st.config.selectedDifficulties) = 0 \/ Len(st.config.selectedCategories) = 0 THEN st
  ELSE
    LET newState ==
          IF st.phase = "prepping"
          THEN [st EXCEPT !.isGameActive = TRUE,
                          !.currentRound = 1,
                          !.scores = InitialScores(st.config.teamNames),
                          !.gameHistory = <<>>,
                          !.hintsRevealed = 0]
          ELSE IF st.phase = "guessing"
          THEN [st EXCEPT !.currentRound = st.currentRound + 1]
          ELSE st
        rolledCharacter == rollCharacterForRound(newState, rand)
    IN IF rolledCharacter = NullCharacter
       THEN st
       ELSE [newState EXCEPT !.phase = "choosing",
                             !.currentCharacter = rolledCharacter,
                             !.currentCategory = CategoryOf(rolledCharacter)]

transitionToGuessing(st) ==
  IF st.phase # "choosing" \/ st.currentCharacter = NullCharacter
  THEN st
  ELSE [st EXCEPT !.phase = "guessing"]

rerollCharacter(st, rand) ==
  IF st.phase # "choosing" THEN st
  ELSE
    LET rolledCharacter == rollCharacterForRound(st, rand)
    IN IF rolledCharacter = NullCharacter
       THEN st
       ELSE [st EXCEPT !.currentCharacter = rolledCharacter,
                       !.currentCategory = CategoryOf(rolledCharacter)]

startGame(st, rand) ==
  IF st.phase # "prepping" THEN st ELSE transitionToChoosing(st, rand)

\* endGame as the older transitionToSetup did it: the used ids are cleared too
endGameForgetsUsed(st) ==
  [st EXCEPT !.phase = "prepping",
             !.isGameActive = FALSE,
             !.isTimerRunning = FALSE,
             !.currentCharacter = NullCharacter,
             !.currentCategory = NullCategory,
             !.usedCharacters = <<>>]

endGame(st) ==
  [st EXCEPT !.phase = "prepping",
             !.isGameActive = FALSE,
             !.isTimerRunning = FALSE,
             !.currentCharacter = NullCharacter,
             !.currentCategory = NullCategory]

addRoundResult(st, result) == [st EXCEPT !.gameHistory = Append(st.gameHistory, result)]

\* markCharacterUsed without the look at the ids already there
markCharacterUsedAgain(st, characterId) ==
  [st EXCEPT !.usedCharacters = Append(st.usedCharacters, characterId)]

markCharacterUsed(st, characterId) ==
  IF ~Includes(st.usedCharacters, characterId)
  THEN [st EXCEPT !.usedCharacters = Append(st.usedCharacters, characterId)]
  ELSE st

setPhase(st, phase) == [st EXCEPT !.phase = phase]

\* transitionToPrepping leaving the history of the rounds in place
transitionToPreppingKeepsHistory(st) ==
  [st EXCEPT !.phase = "prepping",
             !.usedCharacters = <<>>,
             !.currentRound = 0,
             !.currentCategory = NullCategory,
             !.currentCharacter = NullCharacter,
             !.scores = <<>>,
             !.isGameActive = FALSE,
             !.isTimerRunning = FALSE,
             !.timeRemaining = 0,
             !.hintsRevealed = 0]

transitionToPrepping(st) ==
  [st EXCEPT !.phase = "prepping",
             !.usedCharacters = <<>>,
             !.currentRound = 0,
             !.currentCategory = NullCategory,
             !.currentCharacter = NullCharacter,
             !.scores = <<>>,
             !.gameHistory = <<>>,
             !.isGameActive = FALSE,
             !.isTimerRunning = FALSE,
             !.timeRemaining = 0,
             !.hintsRevealed = 0]

(***************************************************************************)
(* Turn and scoring engine.  The Remote screen imports these from          *)
(* stateUpdates; they are modelled from the specification's sections 4.3   *)
(* and 4.4.                                                                *)
(***************************************************************************)

\* Stopping the timer clears isTimerRunning and timerEndsAt
stopTimer(st) == [st EXCEPT !.isTimerRunning = FALSE, !.timerEndsAt = NullTime]

\* timerEndsAt = now + durationSeconds * 1000
startTimer(st, duration, nowMs) ==
  [st EXCEPT !.isTimerRunning = TRUE, !.timerEndsAt = nowMs + duration * 1000]

\* max(0, timerEndsAt - now)
calculateTimeRemaining(st, nowMs) ==
  IF st.timerEndsAt = NullTime THEN 0
  ELSE IF st.timerEndsAt - nowMs > 0 THEN st.timerEndsAt - nowMs ELSE 0

\* array[index] of a 0-based index, or the fallback when there is no such entry
AtOr(array, index, fallback) ==
  IF index >= 0 /\ index < Len(array) THEN array[index + 1] ELSE fallback

\* the duration of the current turn: the team turn's own, or the free turn's
getTurnDuration(st) ==
  IF st.turnType = "free-for-all"
  THEN st.config.freeTurnDuration
  ELSE AtOr(st.config.nthTurnDurations, st.currentTeamIndex, st.config.freeTurnDuration)

\* the points of the current turn: the team turn's own, or the free turn's
getTurnPoints(st) ==
  IF st.turnType = "free-for-all"
  THEN st.config.freeTurnScore
  ELSE AtOr(st.config.nthTurnScores, st.currentTeamIndex, st.config.freeTurnScore)

\* adds points to scores[teamNames[teamIndex]]; null: no one scores
awardPoints(st, teamIndex, points) ==
  IF teamIndex >= 0 /\ teamIndex < Len(st.config.teamNames)
  THEN LET teamName == st.config.teamNames[teamIndex + 1]
       IN [st EXCEPT !.scores = WithScore(st.scores, teamName, ScoreOf(st.scores, teamName) + points)]
  ELSE st

\* every round starts with the first team's turn
firstTurn(st) ==
  [st EXCEPT !.currentTurn = 1, !.currentTeamIndex = 0, !.turnType = "team"]

\* guessing -> choosing, or -> stopping after the last round: marks the shown
\* character used, appends the RoundResult, then rolls for the next round
completeRound(st, roundScores, rand) ==
  IF st.phase # "guessing" \/ st.currentCharacter = NullCharacter THEN st
  ELSE
    LET result   == [ round     |-> st.currentRound,
                      category  |-> st.currentCategory,
                      character |-> st.currentCharacter,
                      scores    |-> roundScores,
                      hintsUsed |-> st.hintsRevealed ]
        marked   == markCharacterUsed(st, createCharacterId(st.currentCharacter))
        recorded == firstTurn(stopTimer(addRoundResult(marked, result)))
    IN IF st.currentRound >= st.config.numberOfRounds
       THEN [recorded EXCEPT !.phase = "stopping"]
       ELSE transitionToChoosing(recorded, rand)

\* a correct answer in a team turn: the turn's points go to the current team
\* (to no one while no team holds the turn)
handleCorrectAnswer(st, rand) ==
  IF st.phase # "guessing" \/ st.turnType # "team" THEN st
  ELSE
    LET points      == getTurnPoints(st)
        roundScores == IF st.currentTeamIndex >= 0 /\ st.currentTeamIndex < Len(st.config.teamNames)
                       THEN [t \in {st.config.teamNames[st.currentTeamIndex + 1]} |-> points]
                       ELSE <<>>
    IN completeRound(awardPoints(st, st.currentTeamIndex, points), roundScores, rand)

\* an incorrect answer in a team turn: the next team's turn, or free-for-all
\* once every team has had its turn
handleIncorrectAnswer(st) ==
  IF st.phase # "guessing" \/ st.turnType # "team" THEN st
  ELSE
    LET nextIndex == IF st.currentTeamIndex = NullIndex THEN 0 ELSE st.currentTeamIndex + 1
    IN IF nextIndex >= Len(st.config.teamNames)
       THEN [st EXCEPT !.turnType = "free-for-all",
                       !.currentTeamIndex = NullIndex,
                       !.currentTurn = nextIndex + 1]
       ELSE [st EXCEPT !.currentTeamIndex = nextIndex, !.currentTurn = nextIndex + 1]

\* stopping -> prepping: the initial state, keeping config and characters
resetGame(st) ==
  IF st.phase # "stopping" THEN st
  ELSE [transitionToPrepping(st) EXCEPT !.currentTurn = 0,
                                        !.currentTeamIndex = NullIndex,
                                        !.turnType = "team",
                                        !.timerEndsAt = NullTime]

(***************************************************************************)
(* The loaded pool and the inputs the model draws                          *)
(***************************************************************************)

Character(name, categories, difficulties) ==
  [ props     |-> << [k |-> <<"a">>, v |-> name] >>,
    tags      |-> [category |-> categories, difficulty |-> difficulties],
    image_url |-> name ]

\* three loaded characters; the first and the third share a fingerprint
People ==
  << Character(<<"A">>, << <<"A">> >>, << <<"a">> >>),
     Character(<<"B">>, << <<"A">>, <<"B">> >>, << <<"a">> >>),
     Character(<<"a">>, << <<"A">> >>, << <<"b">> >>) >>

\* what the category and difficulty selectors can be set to
FilterChoices ==
  { [categories |-> <<>>,           difficulties |-> <<>>],
    [categories |-> << <<"A">> >>,  difficulties |-> << <<"a">> >>],
    [categories |-> << <<"A">> >>,  difficulties |-> << <<"b">> >>],
    [categories |-> << <<"B">> >>,  difficulties |-> << <<"b">> >>] }

\* what the operator can type into a score cell
ScoreInputs == { <<>>, <<"0", ".", "5">>, <<"-", "1">>, <<"a", "b", "c">> }

\* StrWhiteSpaceChar, as far as the inputs have it
IsSpace(ch) == ch = " "

RECURSIVE TrimStart(_)
TrimStart(text) ==
  IF text # <<>> /\ IsSpace(text[1]) THEN TrimStart(Tail(text)) ELSE text

\* the longest run of digits text starts with
RECURSIVE LeadingDigits(_)
LeadingDigits(text) ==
  IF text # <<>> /\ IsDigit(text[1]) THEN <<text[1]>> \o LeadingDigits(Tail(text))
  ELSE <<>>

\* the value of a run of digits
RECURSIVE DigitsValue(_)
DigitsValue(digits) ==
  IF digits = <<>> THEN 0
  ELSE 10 * DigitsValue(SubSeq(digits, 1, Len(digits) - 1)) + DigitOf(digits[Len(digits)])

\* the halves in a fraction of one digit, .0 or .5 (the cells step by 0.5)
FractionHalves(digits) ==
  IF digits # <<>> /\ DigitOf(digits[1]) = 5 THEN 1 ELSE 0

\* the number an unsigned text starts with: digits, then a point and digits
UnsignedPrefix(text) ==
  LET whole    == LeadingDigits(text)
      rest     == SubSeq(text, Len(whole) + 1, Len(text))
      fraction == IF rest # <<>> /\ rest[1] = "." THEN LeadingDigits(Tail(rest)) ELSE <<>>
  IN  [ found  |-> whole # <<>> \/ fraction # <<>>,
        halves |-> 2 * DigitsValue(whole) + FractionHalves(fraction),
        length |-> Len(whole) + (IF fraction # <<>> THEN 1 + Len(fraction)
                                 ELSE IF whole # <<>> /\ rest # <<>> /\ rest[1] = "." THEN 1
                                 ELSE 0) ]

\* parseFloat(value), in halves: leading white space is skipped, the longest
\* prefix that is a decimal number is taken and what follows it is ignored;
\* NaN is [nan |-> TRUE]
ParseFloat(value) ==
  LET trimmed  == TrimStart(value)
      signed   == trimmed # <<>> /\ trimmed[1] \in {"+", "-"}
      unsigned == UnsignedPrefix(IF signed THEN Tail(trimmed) ELSE trimmed)
  IN  IF ~unsigned.found THEN [nan |-> TRUE, v |-> 0]
      ELSE [nan |-> FALSE,
            v   |-> IF signed /\ trimmed[1] = "-" THEN 0 - unsigned.halves
                    ELSE unsigned.halves]

(***************************************************************************)
(* The pool helpers on their own: a character, a selection of tag values   *)
(* per tag key (a key may be missing, its list may be empty) and the used  *)
(* ids of a pool of five.                                                  *)
(***************************************************************************)

\* the used ids of the pool of five stop growing at this many
MaxUsed == 1

TagKeys == {"category", "difficulty"}

\* a character of the Google sheet: props in column order, tags by key
SheetCharacter(props, tags) == [props |-> props, tags |-> tags, image_url |-> <<>>]

ProbeProps ==
  { << [k |-> <<"a">>, v |-> <<"A">>] >>,
    << [k |-> <<"a">>, v |-> <<"A">>], [k |-> <<"b">>, v |-> <<"B", " ", "b">>] >>,
    << [k |-> <<"b">>, v |-> <<"B", " ", "b">>], [k |-> <<"a">>, v |-> <<"A">>] >> }

CategoryLists == { <<>>, << <<"A">> >>, << <<"B">> >>, << <<"A">>, <<"B">> >>, << <<"B">>, <<"A">> >> }
DifficultyLists == { <<>>, << <<"a">> >>, << <<"b">> >> }

\* tags or selections: a list for each key of some set of tag keys
TagMaps ==
  {[category |-> c, difficulty |-> d] : c \in CategoryLists, d \in DifficultyLists}
  \cup {[category |-> c] : c \in CategoryLists}
  \cup {[difficulty |-> d] : d \in DifficultyLists}
  \cup {<<>>}

ProbeCharacters == {SheetCharacter(p, t) : p \in ProbeProps, t \in TagMaps}

\* five characters tagged with A and/or B; three of them hold A.  The
\* category lists are in sorted order, the order createCharacterId's sort
\* leaves them in.
PoolOfFive ==
  << Character(<<"A">>, << <<"A">> >>, << <<"a">> >>),
     Character(<<"B">>, << <<"A">>, <<"B">> >>, << <<"a">> >>),
     Character(<<"A", "A">>, << <<"A">>, <<"B">> >>, << <<"b">> >>),
     Character(<<"A", "B">>, << <<"B">> >>, << <<"a">> >>),
     Character(<<"B", "B">>, << <<"B">> >>, << <<"b">> >>) >>

\* the part of a GameStatus getAvailableCharacters reads
PoolStatus(usedCharacters, selectedTags) ==
  [ characters     |-> PoolOfFive,
    usedCharacters |-> usedCharacters,
    config         |-> [ selectedCategories   |-> TagValuesOf([tags |-> selectedTags], "category"),
                         selectedDifficulties |-> TagValuesOf([tags |-> selectedTags], "difficulty") ] ]

\* the helpers applied to a character, a selection and the used ids
Probed(character, selectedTags, usedCharacters) ==
  [ character      |-> character,
    selectedTags   |-> selectedTags,
    usedCharacters |-> usedCharacters,
    matches        |-> matchesTagFilters(character, selectedTags),
    id             |-> createCharacterId(character),
    after          |-> createCharacterIdArgument(character),
    available      |-> getAvailableCharacters(PoolStatus(usedCharacters, selectedTags)),
    categories     |-> getCategories(PoolStatus(usedCharacters, selectedTags)) ]

(***************************************************************************)
(* The StorageProvider: one provider per (component, key), a `value` state *)
(* fed by the initial read, the tab's storage events and a 1 s poll, and   *)
(* `update` / `clear` for the providers that are not read-only.            *)
(*                                                                         *)
(* A stored value is null or an array of digits; JSON.stringify writes it  *)
(* as text and JSON.parse reads the text back, throwing on anything else.  *)
(* The empty string stands for a missing item: getItem's null and "" are   *)
(* both falsy, and no value serializes to either.                          *)
(***************************************************************************)

\* the arrays the writers store hold one digit in 1 .. MaxDoc
MaxDoc == 2

\* a tab's queue of storage events holds at most this many
MaxPending == 2

Null == [null |-> TRUE]
Doc(items) == [items |-> items]
NoItem == <<>>

RECURSIVE JoinComma(_)
JoinComma(items) ==
  IF Len(items) = 0 THEN <<>>
  ELSE IF Len(items) = 1 THEN <<DigitChars[items[1] + 1]>>
  ELSE <<DigitChars[items[1] + 1], ",">> \o JoinComma(Tail(items))

\* JSON.stringify
serialize(value) ==
  IF value = Null THEN <<"n", "u", "l", "l">>
  ELSE <<"[">> \o JoinComma(value.items) \o <<"]">>

\* the text between the brackets: digits separated by commas
RECURSIVE ParseItems(_)
ParseItems(text) ==
  IF Len(text) = 0 THEN [ok |-> FALSE, items |-> <<>>]
  ELSE IF ~IsDigit(text[1]) THEN [ok |-> FALSE, items |-> <<>>]
  ELSE IF Len(text) = 1 THEN [ok |-> TRUE, items |-> <<DigitOf(text[1])>>]
  ELSE IF text[2] # "," THEN [ok |-> FALSE, items |-> <<>>]
  ELSE LET rest == ParseItems(SubSeq(text, 3, Len(text)))
       IN  [ok |-> rest.ok, items |-> <<DigitOf(text[1])>> \o rest.items]

\* JSON.parse: ok is FALSE when it throws
deserialize(text) ==
  IF text = <<"n", "u", "l", "l">> THEN [ok |-> TRUE, value |-> Null]
  ELSE IF Len(text) < 2 \/ text[1] # "[" \/ text[Len(text)] # "]"
  THEN [ok |-> FALSE, value |-> Null]
  ELSE IF Len(text) = 2 THEN [ok |-> TRUE, value |-> Doc(<<>>)]
  ELSE LET parsed == ParseItems(SubSeq(text, 2, Len(text) - 1))
       IN  [ok |-> parsed.ok, value |-> Doc(parsed.items)]

\* useState's initializer
initialRead(saved, defaultValue) ==
  IF saved # NoItem /\ deserialize(saved).ok THEN deserialize(saved).value
  ELSE defaultValue

\* the storage listener, for an event of the provider's key
handleStorageChange(value, newValue, defaultValue) ==
  IF newValue # NoItem
  THEN IF deserialize(newValue).ok THEN deserialize(newValue).value ELSE value
  ELSE defaultValue

\* pollInterval never replacing a value it already has
pollIntervalKeepsValue(prev, saved, defaultValue) ==
  IF saved # NoItem THEN prev
  ELSE defaultValue

\* one run of the setInterval callback
pollInterval(prev, saved, defaultValue) ==
  IF saved # NoItem
  THEN IF ~deserialize(saved).ok THEN prev
       ELSE LET parsed == deserialize(saved).value
                prevString == IF prev # Null THEN serialize(prev) ELSE NoItem
                newString == serialize(parsed)
            IN  IF prevString # newString THEN parsed ELSE prev
  ELSE IF prev # defaultValue THEN defaultValue ELSE prev

\* update without the look at the read-only flag
updateIgnoringReadOnly(readOnly, value, saved, newValue) ==
  IF saved = serialize(newValue)
  THEN [value |-> value, saved |-> saved, wrote |-> FALSE]
  ELSE [value |-> newValue, saved |-> serialize(newValue), wrote |-> TRUE]

\* update without the look at the stored text
updateAlways(readOnly, value, saved, newValue) ==
  IF readOnly THEN [value |-> value, saved |-> saved, wrote |-> FALSE]
  ELSE [value |-> newValue, saved |-> serialize(newValue), wrote |-> TRUE]

\* the stored value's first field with the other fields of the new value
MergedInto(saved, newValue) ==
  IF saved # NoItem /\ deserialize(saved).ok /\ deserialize(saved).value # Null
     /\ newValue # Null /\ Len(deserialize(saved).value.items) > 0
     /\ Len(newValue.items) > 0
  THEN Doc(<<deserialize(saved).value.items[1]>> \o Tail(newValue.items))
  ELSE newValue

\* update writing the new value over the stored one field by field
updateMerging(readOnly, value, saved, newValue) ==
  IF readOnly THEN [value |-> value, saved |-> saved, wrote |-> FALSE]
  ELSE IF saved = serialize(newValue)
  THEN [value |-> value, saved |-> saved, wrote |-> FALSE]
  ELSE [value |-> newValue, saved |-> serialize(MergedInto(saved, newValue)),
        wrote |-> TRUE]

\* update: the provider's value and the stored text after the call, and
\* whether setItem was called
update(readOnly, value, saved, newValue) ==
  IF readOnly THEN [value |-> value, saved |-> saved, wrote |-> FALSE]
  ELSE IF saved = serialize(newValue)
  THEN [value |-> value, saved |-> saved, wrote |-> FALSE]
  ELSE [value |-> newValue, saved |-> serialize(newValue), wrote |-> TRUE]

\* clear: the provider's value and the stored text after the call, and
\* whether removeItem was called
clear(readOnly, value, saved, defaultValue) ==
  IF readOnly THEN [value |-> value, saved |-> saved, wrote |-> FALSE]
  ELSE [value |-> defaultValue, saved |-> NoItem, wrote |-> TRUE]

\* the platform announces a call that changed the item
Notifies(result, saved) == result.wrote /\ result.saved # saved

\* the providers of the operator's tab (the Remote screen and the People
\* dialog it opens) and of the display's tab
Handles == {"Remote", "PeopleDialog", "Player"}
Tabs == {"operator", "display"}
Keys == {"CONFIG", "STATUS", "PEOPLE"}

TabOf(h) ==
  CASE h = "Player"       -> "display"
    [] h = "ConfigScreen" -> "settings"
    [] OTHER              -> "operator"

ReadOnly(h, key) ==
  CASE h = "Remote"       -> key = "PEOPLE"
    [] h = "PeopleDialog" -> FALSE
    [] h = "ConfigScreen" -> key = "STATUS"
    [] OTHER              -> TRUE

\* the defaultValue prop: null for the people, an object for the others
DefaultOf(key) == IF key = "PEOPLE" THEN Null ELSE Doc(<<0>>)

(***************************************************************************)
(* The Remote screen.  An action is one gesture of the operator (or one    *)
(* timer callback); a gesture on a disabled control changes nothing.       *)
(***************************************************************************)
VARIABLES
  state,        \* the value of the Remote screen's STATUS handle
  config,       \* the value of the Remote screen's CONFIG handle
  savedPeople,  \* the value of the Remote screen's PEOPLE handle
  now,          \* Date.now(), in ms
  slot,         \* the storage key under observation
  storage,      \* localStorage.getItem(slot): a string, or NoItem
  inMemory,     \* each provider's `value` state for the key
  pending,      \* each tab's storage events not yet dispatched
  sincePoll,    \* each provider's poll ticks and events since the last write
  probe         \* what a specification records besides the program's state: the pool
                \* helpers' inputs and results, or the values persisted so far

game == <<state, config, savedPeople, now>>
channel == <<slot, storage, inMemory, pending, sincePoll>>
vars == <<game, channel, probe>>

\* every provider of the key has just mounted and read the item
ChannelAt(key, saved) ==
  /\ slot = key
  /\ storage = saved
  /\ inMemory = [h \in Handles |-> initialRead(saved, DefaultOf(key))]
  /\ pending = [t \in Tabs |-> <<>>]
  /\ sincePoll = [h \in Handles |-> "polled"]

Init ==
  /\ state = initialGameStatus
  /\ config = initialGameConfig
  /\ savedPeople = <<>>
  /\ now = 0
  /\ ChannelAt("STATUS", NoItem)
  /\ probe = Probed(PoolOfFive[1], <<>>, <<>>)

\* selectedDifficulties.includes(char.difficulty) && selectedCategories.includes(char.category)
MatchesSelection(char, cfg) ==
  /\ \E i \in 1..Len(TagValuesOf(char, "difficulty")) :
       Includes(cfg.selectedDifficulties, TagValuesOf(char, "difficulty")[i])
  /\ \E i \in 1..Len(TagValuesOf(char, "category")) :
       Includes(cfg.selectedCategories, TagValuesOf(char, "category")[i])

\* the handlers give the state they hand to updateState, and the state itself
\* when they return early
handleStartGame(st, cfg, rand) ==
  LET stateWithConfig == [st EXCEPT !.config = cfg]
      newState        == startGame(stateWithConfig, rand)
  IN IF Len(st.characters) = 0 THEN st
     ELSE IF Len(cfg.selectedDifficulties) = 0 \/ Len(cfg.selectedCategories) = 0 THEN st
     ELSE IF ~\E i \in 1..Len(st.characters) : MatchesSelection(st.characters[i], cfg) THEN st
     ELSE IF newState.phase = "prepping" THEN st
     ELSE newState


handleConfirmCharacter(st) ==
  IF st.phase # "choosing" THEN st ELSE transitionToGuessing(st)


handleRerollCharacter(st, rand) ==
  LET newState == rerollCharacter(st, rand)
  IN IF st.phase # "choosing" THEN st
     ELSE IF newState.currentCharacter = NullCharacter THEN st
     ELSE newState

\* handleRerollCharacter shows its alert: the re-rolled state has no current character
handleRerollCharacterAlerts(st, rand) ==
  /\ st.phase = "choosing"
  /\ rerollCharacter(st, rand).currentCharacter = NullCharacter




handleStartStopTimer(st, nowMs) ==
  IF st.isTimerRunning THEN stopTimer(st) ELSE startTimer(st, getTurnDuration(st), nowMs)


onCorrectAnswer(st, rand) ==
  IF st.phase # "guessing" THEN st ELSE handleCorrectAnswer(stopTimer(st), rand)


onIncorrectAnswer(st) ==
  IF st.phase # "guessing" THEN st ELSE handleIncorrectAnswer(stopTimer(st))


\* handleAwardFreeForAll without the look at the turn type
handleAwardFreeForAllInAnyTurn(st, cfg, teamIndex, rand) ==
  IF st.phase # "guessing" THEN st
  ELSE
    LET points      == getTurnPoints(st)
        roundScores == IF teamIndex # NullIndex /\ teamIndex < Len(cfg.teamNames)
                       THEN [t \in {cfg.teamNames[teamIndex + 1]} |-> points]
                       ELSE <<>>
        awarded     == awardPoints(stopTimer(st), teamIndex, points)
        marked      == IF st.currentCharacter # NullCharacter
                       THEN markCharacterUsed(awarded, createCharacterId(st.currentCharacter))
                       ELSE awarded
    IN completeRound(marked, roundScores, rand)

\* teamIndex is a 0-based index into config.teamNames, or null
handleAwardFreeForAll(st, cfg, teamIndex, rand) ==
  IF st.phase # "guessing" \/ st.turnType # "free-for-all" THEN st
  ELSE
    LET points      == getTurnPoints(st)
        roundScores == IF teamIndex # NullIndex /\ teamIndex < Len(cfg.teamNames)
                       THEN [t \in {cfg.teamNames[teamIndex + 1]} |-> points]
                       ELSE <<>>
        awarded     == awardPoints(stopTimer(st), teamIndex, points)
        marked      == IF st.currentCharacter # NullCharacter
                       THEN markCharacterUsed(awarded, createCharacterId(st.currentCharacter))
                       ELSE awarded
    IN completeRound(marked, roundScores, rand)


\* the sum of a team's contributions over the rounds of a history
RECURSIVE SumOfRounds(_, _)
SumOfRounds(history, teamName) ==
  IF history = <<>> THEN 0
  ELSE SumOfRounds(SubSeq(history, 1, Len(history) - 1), teamName)
         + ScoreOf(history[Len(history)].scores, teamName)

\* handleScoreChange adding the new value to the total instead of recomputing it
handleScoreChangeIncrementing(st, cfg, round, team, value) ==
  LET parsed   == ParseFloat(value)
      numValue == IF value = <<>> THEN 0 ELSE parsed.v
      updatedGameHistory ==
        [i \in 1..Len(st.gameHistory) |->
           IF st.gameHistory[i].round = round
           THEN [st.gameHistory[i] EXCEPT !.scores = WithScore(st.gameHistory[i].scores, team, numValue)]
           ELSE st.gameHistory[i]]
      newScores == [t \in TeamSet(cfg.teamNames) |->
                      ScoreOf(st.scores, t) + (IF t = team THEN numValue ELSE 0)]
  IN IF value # <<>> /\ (parsed.nan \/ numValue < 0) THEN st
     ELSE [st EXCEPT !.gameHistory = updatedGameHistory, !.scores = newScores]

\* handleScoreChange refusing only what parseFloat cannot read
handleScoreChangeAcceptingNegative(st, cfg, round, team, value) ==
  LET parsed   == ParseFloat(value)
      numValue == IF value = <<>> THEN 0 ELSE parsed.v
      updatedGameHistory ==
        [i \in 1..Len(st.gameHistory) |->
           IF st.gameHistory[i].round = round
           THEN [st.gameHistory[i] EXCEPT !.scores = WithScore(st.gameHistory[i].scores, team, numValue)]
           ELSE st.gameHistory[i]]
      newScores == [t \in TeamSet(cfg.teamNames) |-> SumOfRounds(updatedGameHistory, t)]
  IN IF value # <<>> /\ parsed.nan THEN st
     ELSE [st EXCEPT !.gameHistory = updatedGameHistory, !.scores = newScores]

handleScoreChange(st, cfg, round, team, value) ==
  LET parsed   == ParseFloat(value)
      numValue == IF value = <<>> THEN 0 ELSE parsed.v
      updatedGameHistory ==
        [i \in 1..Len(st.gameHistory) |->
           IF st.gameHistory[i].round = round
           THEN [st.gameHistory[i] EXCEPT !.scores = WithScore(st.gameHistory[i].scores, team, numValue)]
           ELSE st.gameHistory[i]]
      newScores == [t \in TeamSet(cfg.teamNames) |-> SumOfRounds(updatedGameHistory, t)]
  IN IF value # <<>> /\ (parsed.nan \/ numValue < 0) THEN st
     ELSE [st EXCEPT !.gameHistory = updatedGameHistory, !.scores = newScores]

handleEndGame(st) == endGame(st)

handleResetGame(st) == resetGame(st)

\* the Player screen's displayTimeRemaining at time nowMs: recomputed from
\* the end timestamp while the timer runs, 0 otherwise
displayTimeRemaining(st, nowMs) ==
  IF st.isTimerRunning /\ st.timerEndsAt # NullTime
  THEN calculateTimeRemaining(st, nowMs)
  ELSE 0

\* the interval callback counting the stored value down by one per run
TimerCallbackDecrementing(st, nowMs) ==
  LET newTime == st.timeRemaining - 1
  IN IF ~st.isTimerRunning \/ st.timerEndsAt = NullTime THEN st
     ELSE IF newTime <= 0 THEN stopTimer([st EXCEPT !.timeRemaining = 0])
     ELSE [st EXCEPT !.timeRemaining = newTime]

\* the interval callback with only its first updateState: the remaining time
\* is stored and the timer is left running at expiry
TimerCallbackOnlyCounting(st, nowMs) ==
  LET remaining == calculateTimeRemaining(st, nowMs)
  IN IF ~st.isTimerRunning \/ st.timerEndsAt = NullTime THEN st
     ELSE [st EXCEPT !.timeRemaining = remaining]

\* the interval callback of the countdown effect, run at time nowMs: the
\* second updateState replaces the first
TimerCallback(st, nowMs) ==
  LET remaining == calculateTimeRemaining(st, nowMs)
  IN IF ~st.isTimerRunning \/ st.timerEndsAt = NullTime THEN st
     ELSE IF remaining <= 0 THEN stopTimer(st)
     ELSE [st EXCEPT !.timeRemaining = remaining]

\* PeopleDialog: 'Reset Used'
handleResetUsedCharacters(st) == [st EXCEPT !.usedCharacters = <<>>]

(***************************************************************************)
(* Effects run after every state change                                    *)
(***************************************************************************)
\* the config sync that leaves the filters of the state as they are
ConfigSyncEffectKeepingFilters(st, cfg) ==
  IF st.config # cfg
  THEN [st EXCEPT !.config = [cfg EXCEPT !.selectedCategories = st.config.selectedCategories,
                                         !.selectedDifficulties = st.config.selectedDifficulties]]
  ELSE st

ConfigSyncEffect(st, cfg) ==
  IF st.config # cfg THEN [st EXCEPT !.config = cfg] ELSE st

CharacterSyncEffect(st, people) ==
  IF Len(people) > 0 /\ st.characters # people THEN updateCharacters(st, people)
  ELSE IF Len(people) = 0 /\ Len(st.characters) > 0 THEN updateCharacters(st, <<>>)
  ELSE st

TimerEffect(st) ==
  IF st.isTimerRunning /\ st.timerEndsAt = NullTime THEN stopTimer(st) ELSE st

Effects(st, cfg, people) ==
  TimerEffect(CharacterSyncEffect(ConfigSyncEffect(st, cfg), people))

(***************************************************************************)
(* The controls' disabled attributes                                       *)
(***************************************************************************)
PeopleDisabled(st) == st.isGameActive

StartDisabled(st) == st.phase # "prepping" \/ Len(st.characters) = 0

\* the End button disabled in prepping only
EndDisabledInPreppingOnly(st) == st.phase = "prepping"

EndDisabled(st) == st.phase = "prepping" \/ st.phase = "stopping"

ResetDisabled(st) == st.phase # "stopping"

currentCharacterMatchesFilters(st, cfg) ==
  /\ st.currentCharacter # NullCharacter
  /\ MatchesSelection(st.currentCharacter, cfg)

RerollDisabled(st) == st.phase # "choosing" \/ Len(getAvailableCharacters(st)) = 0

\* the Confirm button disabled by the phase alone
ConfirmDisabledByPhaseOnly(st, cfg) == st.phase # "choosing"

ConfirmDisabled(st, cfg) == st.phase # "choosing" \/ ~currentCharacterMatchesFilters(st, cfg)

TimerDisabled(st) == st.phase # "guessing"

AwardDisabled(st) == st.phase # "guessing"

ClockStep == initialGameConfig.freeTurnDuration * 1000

(***************************************************************************)
(* The gestures                                                            *)
(***************************************************************************)
Rands == 0..(RandomSteps - 1)

\* the Remote screen's state after updateState(newState) and the effects
AfterUpdate(newState) == Effects(newState, config, savedPeople)

\* a click on a control: nothing happens while the control is disabled
StartClicked(st, cfg, rand) ==
  IF StartDisabled(st) THEN st ELSE handleStartGame(st, cfg, rand)

ConfirmClicked(st, cfg) ==
  IF ConfirmDisabled(st, cfg) THEN st ELSE handleConfirmCharacter(st)

RerollClicked(st, rand) ==
  IF RerollDisabled(st) THEN st ELSE handleRerollCharacter(st, rand)

EndClicked(st) == IF EndDisabled(st) THEN st ELSE handleEndGame(st)

ResetClicked(st) == IF ResetDisabled(st) THEN st ELSE handleResetGame(st)

TimerClicked(st, nowMs) ==
  IF TimerDisabled(st) THEN st ELSE handleStartStopTimer(st, nowMs)

\* 'Award Points': the current team in a team turn, the selected team in the
\* free-for-all
AwardClicked(st, cfg, teamIndex, rand) ==
  IF AwardDisabled(st) THEN st
  ELSE IF st.turnType = "free-for-all" THEN handleAwardFreeForAll(st, cfg, teamIndex, rand)
  ELSE onCorrectAnswer(st, rand)

\* 'No Points'
NoPointsClicked(st, cfg, rand) ==
  IF AwardDisabled(st) THEN st
  ELSE IF st.turnType = "free-for-all" THEN handleAwardFreeForAll(st, cfg, NullIndex, rand)
  ELSE onIncorrectAnswer(st)

ClickStart ==
  /\ \E rand \in Rands : state' = AfterUpdate(StartClicked(state, config, rand))
  /\ UNCHANGED <<config, savedPeople, now, channel, probe>>

ClickConfirm ==
  /\ state' = AfterUpdate(ConfirmClicked(state, config))
  /\ UNCHANGED <<config, savedPeople, now, channel, probe>>

ClickReroll ==
  /\ \E rand \in Rands : state' = AfterUpdate(RerollClicked(state, rand))
  /\ UNCHANGED <<config, savedPeople, now, channel, probe>>

ClickEnd ==
  /\ state' = AfterUpdate(EndClicked(state))
  /\ UNCHANGED <<config, savedPeople, now, channel, probe>>

ClickReset ==
  /\ state' = AfterUpdate(ResetClicked(state))
  /\ UNCHANGED <<config, savedPeople, now, channel, probe>>

ClickTimer ==
  /\ state' = AfterUpdate(TimerClicked(state, now))
  /\ UNCHANGED <<config, savedPeople, now, channel, probe>>

ClickAward ==
  /\ Len(state.gameHistory) < MaxHistory
  /\ \E rand \in Rands, teamIndex \in 0..(Len(config.teamNames) - 1) :
       state' = AfterUpdate(AwardClicked(state, config, teamIndex, rand))
  /\ UNCHANGED <<config, savedPeople, now, channel, probe>>

ClickNoPoints ==
  /\ Len(state.gameHistory) < MaxHistory
  /\ \E rand \in Rands :
       state' = AfterUpdate(NoPointsClicked(state, config, rand))
  /\ UNCHANGED <<config, savedPeople, now, channel, probe>>

\* the score cells exist for the rounds of the history and the configured teams
EditScore ==
  /\ \E i \in 1..Len(state.gameHistory), team \in TeamSet(config.teamNames), value \in ScoreInputs :
       state' = AfterUpdate(handleScoreChange(state, config, state.gameHistory[i].round, team, value))
  /\ UNCHANGED <<config, savedPeople, now, channel, probe>>

\* a new CONFIG value reaches the Remote screen: its own selectors, the
\* Config dialog or the Config screen wrote it
SelectFilters ==
  /\ \E choice \in FilterChoices :
       config' = [config EXCEPT !.selectedCategories = choice.categories,
                                !.selectedDifficulties = choice.difficulties]
  /\ state' = Effects(state, config', savedPeople)
  /\ UNCHANGED <<savedPeople, now, channel, probe>>

SetRounds ==
  /\ \E rounds \in 1..MaxRounds : config' = [config EXCEPT !.numberOfRounds = rounds]
  /\ state' = Effects(state, config', savedPeople)
  /\ UNCHANGED <<savedPeople, now, channel, probe>>

\* PeopleDialog: a sheet is loaded
LoadPeople ==
  /\ ~PeopleDisabled(state)
  /\ savedPeople' = People
  /\ state' = Effects(state, config, People)
  /\ UNCHANGED <<config, now, channel, probe>>

ResetUsed ==
  /\ ~PeopleDisabled(state)
  /\ Len(state.usedCharacters) > 0
  /\ state' = AfterUpdate(handleResetUsedCharacters(state))
  /\ UNCHANGED <<config, savedPeople, now, channel, probe>>

\* the countdown's interval callback, one clock step later
Tick ==
  /\ state.isTimerRunning /\ state.timerEndsAt # NullTime
  /\ now < MaxClockSteps * ClockStep
  /\ now' = now + ClockStep
  /\ state' = AfterUpdate(TimerCallback(state, now'))
  /\ UNCHANGED <<config, savedPeople, channel, probe>>

\* the game: every gesture but the score cells
Next ==
  \/ ClickStart
  \/ ClickConfirm
  \/ ClickReroll
  \/ ClickEnd
  \/ ClickReset
  \/ ClickTimer
  \/ ClickAward
  \/ ClickNoPoints
  \/ SelectFilters
  \/ SetRounds
  \/ LoadPeople
  \/ ResetUsed
  \/ Tick

Spec == Init /\ [][Next]_vars

\* the score table: the gestures that change scores or the history
NextScores ==
  \/ ClickStart
  \/ ClickConfirm
  \/ ClickEnd
  \/ ClickReset
  \/ ClickAward
  \/ ClickNoPoints
  \/ EditScore
  \/ SelectFilters
  \/ SetRounds
  \/ LoadPeople

SpecScores == Init /\ [][NextScores]_vars

(***************************************************************************)
(* The channel: the providers of one key in the operator's tab and in the  *)
(* display's tab, the stored item, and the storage events on their way to  *)
(* the other tab.                                                          *)
(***************************************************************************)
StoredTexts == {NoItem} \cup {serialize(Doc(<<d>>)) : d \in 1..MaxDoc}

InitChannel ==
  /\ state = initialGameStatus
  /\ config = initialGameConfig
  /\ savedPeople = <<>>
  /\ now = 0
  /\ probe = Probed(PoolOfFive[1], <<>>, <<>>)
  /\ \E key \in Keys, saved \in StoredTexts : ChannelAt(key, saved)

\* the value the stored item stands for
Latest == IF storage = NoItem THEN DefaultOf(slot) ELSE deserialize(storage).value

\* localStorage after a call of provider h: a changed item is announced to
\* the other tabs, not to the caller's
Stored(h, result) ==
  /\ storage' = result.saved
  /\ inMemory' = [inMemory EXCEPT ![h] = result.value]
  /\ pending' = IF Notifies(result, storage)
                THEN [t \in DOMAIN pending |-> IF t = TabOf(h) THEN pending[t]
                                     ELSE Append(pending[t], result.saved)]
                ELSE pending
  /\ sincePoll' = IF result.saved = storage THEN sincePoll
                  ELSE [g \in DOMAIN inMemory |-> "written"]

RoomForEvents(h) ==
  \A t \in DOMAIN pending \ {TabOf(h)} : Len(pending[t]) < MaxPending

Update(h, d) ==
  /\ RoomForEvents(h)
  /\ Stored(h, update(ReadOnly(h, slot), inMemory[h], storage, Doc(<<d>>)))
  /\ UNCHANGED <<slot, game, probe>>

Clear(h) ==
  /\ RoomForEvents(h)
  /\ Stored(h, clear(ReadOnly(h, slot), inMemory[h], storage, DefaultOf(slot)))
  /\ UNCHANGED <<slot, game, probe>>

\* the tab's window dispatches its oldest storage event to every listener
Dispatch(t) ==
  /\ pending[t] # <<>>
  /\ inMemory' = [h \in DOMAIN inMemory |->
       IF TabOf(h) = t
       THEN handleStorageChange(inMemory[h], Head(pending[t]), DefaultOf(slot))
       ELSE inMemory[h]]
  /\ pending' = [pending EXCEPT ![t] = Tail(pending[t])]
  /\ sincePoll' = [h \in DOMAIN inMemory |->
       IF TabOf(h) = t /\ sincePoll[h] = "polled" THEN "notified" ELSE sincePoll[h]]
  /\ UNCHANGED <<slot, storage, game, probe>>

\* the provider's interval fires
PollTick(h) ==
  /\ inMemory' = [inMemory EXCEPT ![h] = pollInterval(inMemory[h], storage, DefaultOf(slot))]
  /\ sincePoll' = [sincePoll EXCEPT ![h] = "polled"]
  /\ UNCHANGED <<slot, storage, pending, game, probe>>

\* the providers that are mounted are the ones holding a value, the tabs
\* that are open the ones with a queue of events
CallUpdate == \E h \in DOMAIN inMemory, d \in 1..MaxDoc : Update(h, d)
CallClear == \E h \in DOMAIN inMemory : Clear(h)
DispatchEvent == \E t \in DOMAIN pending : Dispatch(t)
Poll == \E h \in DOMAIN inMemory : PollTick(h)

NextChannel ==
  \/ CallUpdate
  \/ CallClear
  \/ DispatchEvent
  \/ Poll

SpecChannel == InitChannel /\ [][NextChannel]_vars

(***************************************************************************)
(* The providers over an item that JSON.parse may reject: the item is a    *)
(* text of the origin's localStorage, and any document of the origin can   *)
(* put a text there that no provider wrote.                                *)
(***************************************************************************)
\* a text JSON.parse throws on
Malformed == <<"[", "1">>

IsCorrupt(text) == text # NoItem /\ ~deserialize(text).ok

InitCorrupt ==
  /\ state = initialGameStatus
  /\ config = initialGameConfig
  /\ savedPeople = <<>>
  /\ now = 0
  /\ probe = Probed(PoolOfFive[1], <<>>, <<>>)
  /\ \E key \in Keys, saved \in StoredTexts \cup {Malformed} : ChannelAt(key, saved)

\* a document outside the two tabs sets the item to the malformed text; both
\* tabs get the storage event
Tamper ==
  /\ storage # Malformed
  /\ \A t \in Tabs : Len(pending[t]) < MaxPending
  /\ storage' = Malformed
  /\ pending' = [t \in Tabs |-> Append(pending[t], Malformed)]
  /\ sincePoll' = [g \in Handles |-> "written"]
  /\ UNCHANGED <<slot, inMemory, game, probe>>

\* the component of the provider is mounted again: useState's initializer runs
Attach(h) ==
  /\ inMemory' = [inMemory EXCEPT ![h] = initialRead(storage, DefaultOf(slot))]
  /\ UNCHANGED <<slot, storage, pending, sincePoll, game, probe>>

Remount == \E h \in Handles : Attach(h)

NextCorrupt ==
  \/ CallUpdate
  \/ CallClear
  \/ DispatchEvent
  \/ Poll
  \/ Tamper
  \/ Remount

SpecCorrupt == InitCorrupt /\ [][NextCorrupt]_vars

(***************************************************************************)
(* Two tabs that both write: the Remote screen in the operator's tab and   *)
(* the Config screen in a tab of its own. The values have two fields.      *)
(***************************************************************************)
Writers == {"Remote", "ConfigScreen"}
WriterTabs == {TabOf(h) : h \in Writers}

WholeValues == {Doc(<<a, b>>) : a, b \in 1..MaxDoc}

InitWriters ==
  /\ state = initialGameStatus
  /\ config = initialGameConfig
  /\ savedPeople = <<>>
  /\ now = 0
  /\ probe = Probed(PoolOfFive[1], <<>>, <<>>)
  /\ \E key \in Keys, saved \in {NoItem} \cup {serialize(v) : v \in WholeValues} :
       /\ slot = key
       /\ storage = saved
       /\ inMemory = [h \in Writers |-> initialRead(saved, DefaultOf(key))]
       /\ pending = [t \in WriterTabs |-> <<>>]
       /\ sincePoll = [h \in Writers |-> "polled"]

\* update called with a whole value
Write(h, newValue) ==
  /\ RoomForEvents(h)
  /\ Stored(h, update(ReadOnly(h, slot), inMemory[h], storage, newValue))
  /\ UNCHANGED <<slot, game, probe>>

CallWrite == \E h \in DOMAIN inMemory, v \in WholeValues : Write(h, v)

NextWriters ==
  \/ CallWrite
  \/ CallClear
  \/ DispatchEvent
  \/ Poll

SpecWriters == InitWriters /\ [][NextWriters]_vars

(***************************************************************************)
(* The two writing tabs again, with a record of every value that was ever  *)
(* persisted under the key (probe): the value the item stood for when the  *)
(* providers mounted, and the value of every setItem since.                *)
(***************************************************************************)
InitPersisted ==
  /\ state = initialGameStatus
  /\ config = initialGameConfig
  /\ savedPeople = <<>>
  /\ now = 0
  /\ \E key \in Keys, saved \in {NoItem} \cup {serialize(v) : v \in WholeValues} :
       /\ slot = key
       /\ storage = saved
       /\ inMemory = [h \in Writers |-> initialRead(saved, DefaultOf(key))]
       /\ pending = [t \in WriterTabs |-> <<>>]
       /\ sincePoll = [h \in Writers |-> "polled"]
       /\ probe = IF saved = NoItem THEN {} ELSE {deserialize(saved).value}

\* update called with a whole value; what setItem stored is recorded
WriteRecorded(h, newValue) ==
  LET result == update(ReadOnly(h, slot), inMemory[h], storage, newValue)
  IN  /\ RoomForEvents(h)
      /\ Stored(h, result)
      /\ probe' = IF result.wrote THEN probe \cup {deserialize(result.saved).value} ELSE probe
      /\ UNCHANGED <<slot, game>>

CallWriteRecorded == \E h \in DOMAIN inMemory, v \in WholeValues : WriteRecorded(h, v)

NextPersisted ==
  \/ CallWriteRecorded
  \/ CallClear
  \/ DispatchEvent
  \/ Poll

SpecPersisted == InitPersisted /\ [][NextPersisted]_vars

(***************************************************************************)
(* 'Reset Used': the Remote screen and the People dialog it opens, each     *)
(* with a provider of its own for STATUS, in the operator's tab, and the    *)
(* Player screen in the display's tab.  A status is cut down to two fields: *)
(* the number of used ids, and a digit for the fields the Remote screen's   *)
(* writes change.                                                           *)
(***************************************************************************)
StatusHandles == {"Remote", "PeopleDialog", "Player"}

\* a GameStatus: usedCharacters (by its length) and the other fields
Status(used, other) == Doc(<<used, other>>)
usedCharacters(status) == status.items[1]

\* the statuses a finished game leaves in storage
SavedStatuses == {Status(used, other) : used \in 0..MaxDoc, other \in 1..MaxDoc}

InitReset ==
  /\ state = initialGameStatus
  /\ config = initialGameConfig
  /\ savedPeople = <<>>
  /\ now = 0
  /\ probe = Probed(PoolOfFive[1], <<>>, <<>>)
  /\ \E saved \in {serialize(v) : v \in SavedStatuses} :
       /\ slot = "STATUS"
       /\ storage = saved
       /\ inMemory = [h \in StatusHandles |-> initialRead(saved, DefaultOf("STATUS"))]
       /\ pending = [t \in {TabOf(h) : h \in StatusHandles} |-> <<>>]
       /\ sincePoll = [h \in StatusHandles |-> "polled"]

\* handleResetUsedCharacters: updateGameStatus({ ...gameStatus, usedCharacters: [] })
ResetUsedCharacters ==
  Write("PeopleDialog", Status(0, inMemory["PeopleDialog"].items[2]))

\* a write of the Remote screen that is no round completion: updateState({ ...state, ... })
\* with the state of its own handle (config or character sync, timer callback, migration,
\* Start, Confirm, Re-roll, End)
RemoteUpdateState ==
  \E other \in 1..MaxDoc :
    Write("Remote", Status(usedCharacters(inMemory["Remote"]), other))

PollReset == \E h \in DOMAIN inMemory : PollTick(h)

NextReset ==
  \/ ResetUsedCharacters
  \/ RemoteUpdateState
  \/ DispatchEvent
  \/ PollReset

SpecReset == InitReset /\ [][NextReset]_vars

(***************************************************************************)
(* The pool helpers tried on every character and selection of the inputs   *)
(***************************************************************************)
InitPool ==
  /\ state = initialGameStatus
  /\ config = initialGameConfig
  /\ savedPeople = <<>>
  /\ now = 0
  /\ ChannelAt("STATUS", NoItem)
  /\ \E character \in ProbeCharacters, selectedTags \in TagMaps :
       probe = Probed(character, selectedTags, <<>>)

\* the lists of values a tag key can be set to
ListsFor(tagKey) == IF tagKey = "category" THEN CategoryLists ELSE DifficultyLists

SetOf(xs) == {xs[i] : i \in 1..Len(xs)}

\* xs with its first two entries exchanged
SwapFirstTwo(xs) ==
  IF Len(xs) < 2 THEN xs ELSE <<xs[2], xs[1]>> \o SubSeq(xs, 3, Len(xs))

\* the list of one tag key of the selection is replaced by a list that holds
\* every value of the old one, and more
Widen ==
  /\ \E tagKey \in DOMAIN probe.selectedTags :
       \E selectedValues \in ListsFor(tagKey) :
         /\ SetOf(probe.selectedTags[tagKey]) \subseteq SetOf(selectedValues)
         /\ SetOf(probe.selectedTags[tagKey]) # SetOf(selectedValues)
         /\ probe' = Probed(probe.character,
                            [probe.selectedTags EXCEPT ![tagKey] = selectedValues],
                            probe.usedCharacters)
  /\ UNCHANGED <<game, channel>>

\* the same character with its props in another column order
ReorderProps ==
  /\ Len(probe.character.props) > 1
  /\ probe' = Probed([probe.character EXCEPT !.props = SwapFirstTwo(@)],
                     probe.selectedTags, probe.usedCharacters)
  /\ UNCHANGED <<game, channel>>

\* the same character with its category values in another order
ReorderCategories ==
  /\ Len(TagValuesOf(probe.character, "category")) > 1
  /\ probe' = Probed([probe.character EXCEPT !.tags.category = SwapFirstTwo(@)],
                     probe.selectedTags, probe.usedCharacters)
  /\ UNCHANGED <<game, channel>>

\* a character of the pool of five is marked used
MarkUsed ==
  /\ Len(probe.usedCharacters) < MaxUsed
  /\ \E i \in 1..Len(PoolOfFive) :
       probe' = Probed(probe.character, probe.selectedTags,
                       markCharacterUsed(PoolStatus(probe.usedCharacters, probe.selectedTags),
                                         createCharacterId(PoolOfFive[i])).usedCharacters)
  /\ UNCHANGED <<game, channel>>

NextPool ==
  \/ Widen
  \/ ReorderProps
  \/ ReorderCategories
  \/ MarkUsed

SpecPool == InitPool /\ [][NextPool]_vars

(***************************************************************************)
(* The configuration editor (ConfigDialog): its config state, the team     *)
(* count input and the effect that keeps the per-team lists in step.  In   *)
(* SpecConfig the variable config is the editor's config state, which its  *)
(* persist effect writes to CONFIG after every change.                     *)
(***************************************************************************)

\* the team count input is never raised above this
MaxTeams == 4

\* `Team ${n}`
TeamLabels == <<"Team 1", "Team 2", "Team 3", "Team 4", "Team 5", "Team 6">>
TeamLabel(n) == TeamLabels[n]

\* array[index] is neither undefined nor 0 (index counts from 0)
Truthy(array, index) == index < Len(array) /\ array[index + 1] # 0

\* array[i] || array[0] || fallback
EntryOr(array, i, fallback) ==
  IF Truthy(array, i) THEN array[i + 1]
  ELSE IF Truthy(array, 0) THEN array[1]
  ELSE fallback

\* the list itself when it has one entry per team, else Array.from({ length: teamCount }, ...)
PerTeam(array, teamCount, fallback) ==
  IF Len(array) = teamCount THEN array
  ELSE [i \in 1..teamCount |-> EntryOr(array, i - 1, fallback)]

\* array.length || 2
LengthOrTwo(array) == IF Len(array) = 0 THEN 2 ELSE Len(array)

\* the first duration (60 s) and score (0.5) of a list that has none
DefaultTurnDuration == 60
DefaultTurnScore == 1

\* the useState initialiser: the CONFIG item, or initialGameConfig when there is none,
\* with the two per-turn lists brought to one entry per team
InitialDialogConfig(saved) ==
  LET parsed    == IF saved = NoItem THEN initialGameConfig ELSE saved
      teamCount == LengthOrTwo(parsed.teamNames)
  IN  [parsed EXCEPT !.nthTurnDurations = PerTeam(parsed.nthTurnDurations, teamCount, DefaultTurnDuration),
                     !.nthTurnScores    = PerTeam(parsed.nthTurnScores, teamCount, DefaultTurnScore)]

\* Array.prototype.slice(0, count)
SliceTo(array, count) == SubSeq(array, 1, IF count < Len(array) THEN count ELSE Len(array))

\* Array.from({ length: count }, () => value)
Repeat(count, value) == [i \in 1..count |-> value]

\* the effect on numberOfTeams that forgets to cut nthTurnScores
syncTeamsKeepingScores(prev, numberOfTeams) ==
  LET currentTeamCount == Len(prev.teamNames)
      added            == numberOfTeams - currentTeamCount
  IN  IF numberOfTeams = currentTeamCount THEN prev
      ELSE IF numberOfTeams > currentTeamCount
      THEN LET newTeams        == [i \in 1..added |-> TeamLabel(currentTeamCount + i)]
               newTurnScores   == Repeat(added, DefaultTurnScore)
               defaultDuration == IF currentTeamCount > 0 THEN prev.nthTurnDurations[currentTeamCount]
                                  ELSE DefaultTurnDuration
               newTurnDurations == Repeat(added, defaultDuration)
           IN  [prev EXCEPT !.teamNames        = prev.teamNames \o newTeams,
                            !.nthTurnDurations = prev.nthTurnDurations \o newTurnDurations,
                            !.nthTurnScores    = prev.nthTurnScores \o newTurnScores]
      ELSE [prev EXCEPT !.teamNames        = SliceTo(prev.teamNames, numberOfTeams),
                        !.nthTurnDurations = SliceTo(prev.nthTurnDurations, numberOfTeams)]

\* the effect on numberOfTeams: new teams are appended to the three lists, extra teams cut
syncTeams(prev, numberOfTeams) ==
  LET currentTeamCount == Len(prev.teamNames)
      added            == numberOfTeams - currentTeamCount
  IN  IF numberOfTeams = currentTeamCount THEN prev
      ELSE IF numberOfTeams > currentTeamCount
      THEN LET newTeams        == [i \in 1..added |-> TeamLabel(currentTeamCount + i)]
               newTurnScores   == Repeat(added, DefaultTurnScore)
               defaultDuration == IF currentTeamCount > 0 THEN prev.nthTurnDurations[currentTeamCount]
                                  ELSE DefaultTurnDuration
               newTurnDurations == Repeat(added, defaultDuration)
           IN  [prev EXCEPT !.teamNames        = prev.teamNames \o newTeams,
                            !.nthTurnDurations = prev.nthTurnDurations \o newTurnDurations,
                            !.nthTurnScores    = prev.nthTurnScores \o newTurnScores]
      ELSE [prev EXCEPT !.teamNames        = SliceTo(prev.teamNames, numberOfTeams),
                        !.nthTurnDurations = SliceTo(prev.nthTurnDurations, numberOfTeams),
                        !.nthTurnScores    = SliceTo(prev.nthTurnScores, numberOfTeams)]

\* parseInt on the text of an input: the leading integer, or NaN
ParseInt(value) ==
  LET trimmed == TrimStart(value)
      signed  == trimmed # <<>> /\ trimmed[1] \in {"+", "-"}
      digits  == LeadingDigits(IF signed THEN Tail(trimmed) ELSE trimmed)
  IN  IF digits = <<>> THEN [nan |-> TRUE, v |-> 0]
      ELSE [nan |-> FALSE, v |-> IF signed /\ trimmed[1] = "-" THEN 0 - DigitsValue(digits) ELSE DigitsValue(digits)]

\* parsed || fallback, for a parsed number that may be NaN
NumberOr(parsed, fallback) == IF parsed.nan \/ parsed.v = 0 THEN fallback ELSE parsed.v

\* the team count input's onChange: Math.max(2, parseInt(e.target.value) || 2)
TeamCountOf(value) ==
  LET count == NumberOr(ParseInt(value), 2)
  IN  IF count < 2 THEN 2 ELSE count

\* what the operator types in the team count input
TeamCountInputs == { <<>>, <<"-", "1">> } \cup { <<DigitChars[n + 1]>> : n \in 0..MaxTeams }

\* what the operator types in a turn's duration and score inputs
DurationInputs == { <<>>, <<"4", "5">> }
TurnScoreInputs == { <<>>, <<"2">> }

\* CONFIG items the editor can find when it opens: none, the default one, one of three
\* teams, and two of an earlier version with per-turn lists of other lengths
ThreeTeams ==
  [initialGameConfig EXCEPT !.teamNames        = <<"Team A", "Team B", "Team C">>,
                            !.nthTurnDurations = <<60, 45, 45>>,
                            !.nthTurnScores    = <<Halves(4), Halves(2), Halves(1)>>]
StoredConfigs ==
  { NoItem, initialGameConfig, ThreeTeams,
    [initialGameConfig EXCEPT !.nthTurnDurations = <<45>>, !.nthTurnScores = <<>>],
    [ThreeTeams EXCEPT !.nthTurnDurations = <<0, 45>>, !.nthTurnScores = <<Halves(2), 0, Halves(1), Halves(1)>>] }

\* the editor opens: the initialiser, then the effect's first run
InitConfig ==
  /\ state = initialGameStatus
  /\ \E saved \in StoredConfigs :
       LET initial == InitialDialogConfig(saved)
       IN  config = syncTeams(initial, LengthOrTwo(initial.teamNames))
  /\ savedPeople = <<>>
  /\ now = 0
  /\ ChannelAt("STATUS", NoItem)
  /\ probe = Probed(PoolOfFive[1], <<>>, <<>>)

\* the operator changes the number of teams
ChangeTeamCount ==
  /\ \E value \in TeamCountInputs :
       /\ TeamCountOf(value) <= MaxTeams
       /\ config' = syncTeams(config, TeamCountOf(value))
  /\ UNCHANGED <<state, savedPeople, now, channel, probe>>

\* the operator edits one turn's duration: parseInt(e.target.value) || 60
EditTurnDuration ==
  /\ \E index \in 0..(Len(config.nthTurnDurations) - 1), value \in DurationInputs :
       config' = [config EXCEPT !.nthTurnDurations[index + 1] = NumberOr(ParseInt(value), 60)]
  /\ UNCHANGED <<state, savedPeople, now, channel, probe>>

\* the operator edits one turn's score: parseFloat(e.target.value) || 0
EditTurnScore ==
  /\ \E index \in 0..(Len(config.nthTurnScores) - 1), value \in TurnScoreInputs :
       config' = [config EXCEPT !.nthTurnScores[index + 1] = NumberOr(ParseFloat(value), 0)]
  /\ UNCHANGED <<state, savedPeople, now, channel, probe>>

NextConfig ==
  \/ ChangeTeamCount
  \/ EditTurnDuration
  \/ EditTurnScore

SpecConfig == InitConfig /\ [][NextConfig]_vars

(***************************************************************************)
(* Properties                                                              *)
(***************************************************************************)
UsedIds(st) == {st.usedCharacters[i] : i \in 1..Len(st.usedCharacters)}

\* the operator gives a team the points, or (in the free-for-all) gives no
\* one the points
AwardStep ==
  /\ state.phase = "guessing"
  /\ \/ \E rand \in Rands, teamIndex \in 0..(Len(config.teamNames) - 1) :
          state' = AfterUpdate(AwardClicked(state, config, teamIndex, rand))
     \/ /\ state.turnType = "free-for-all"
        /\ \E rand \in Rands : state' = AfterUpdate(NoPointsClicked(state, config, rand))

\* C1: over the game's operations the set of used ids never loses an element;
\* it shrinks only by Reset in stopping or by 'Reset Used' in the People dialog
C1_UsedOnlyGrows ==
  [][ \/ UsedIds(state) \subseteq UsedIds(state')
      \/ state.phase = "stopping" /\ state' = AfterUpdate(ResetClicked(state))
      \/ ~PeopleDisabled(state) /\ state' = AfterUpdate(handleResetUsedCharacters(state)) ]_vars

\* a second game is being played and the ids used in the first are still there
C1_Witness ==
  /\ state.phase = "choosing"
  /\ state.currentRound = 1
  /\ Len(state.usedCharacters) > 0

\* C2: a rolled character's fingerprint is not among the used ids at the
\* moment of the roll, and no two rounds of the history show characters of
\* the same fingerprint
C2_NonRepeating ==
  /\ \A rand \in Rands :
       LET rolled == rollCharacterForRound(state, rand)
       IN rolled # NullCharacter =>
            ~Includes(state.usedCharacters, createCharacterId(rolled))
  /\ state.phase = "choosing" /\ state.currentCharacter # NullCharacter =>
       ~Includes(state.usedCharacters, createCharacterId(state.currentCharacter))
  /\ \A i, j \in 1..Len(state.gameHistory) :
       i # j => createCharacterId(state.gameHistory[i].character)
                  # createCharacterId(state.gameHistory[j].character)

LegalPhaseChanges ==
  { <<"prepping", "choosing">>, <<"choosing", "guessing">>, <<"guessing", "choosing">>,
    <<"guessing", "stopping">>, <<"choosing", "prepping">>, <<"guessing", "prepping">>,
    <<"stopping", "prepping">> }

C4_ScoresAreSums ==
  \A team \in TeamSet(config.teamNames) :
    ScoreOf(state.scores, team) = SumOfRounds(state.gameHistory, team)

\* a round's cell was edited (only an edit gives a round a value for every
\* team) and a team has points
C4_Witness ==
  /\ \E i \in 1..Len(state.gameHistory) :
       /\ DOMAIN state.gameHistory[i].scores = TeamSet(config.teamNames)
       /\ \E team \in TeamSet(config.teamNames) : state.gameHistory[i].scores[team] = 0
  /\ \E team \in TeamSet(config.teamNames) : ScoreOf(state.scores, team) > 0

\* C5 as stated: a provider that has run a poll tick since the last write of
\* the key holds the value the stored item stands for
C5_LatestAfterOneTick ==
  \A h \in Handles : sincePoll[h] # "written" => inMemory[h] = Latest

\* C5: a provider that has run a poll tick since the last write of the key,
\* and since the last storage event dispatched in its tab, holds the value
\* the stored item stands for
C5_LatestAfterQuietTick ==
  \A h \in Handles : sincePoll[h] = "polled" => inMemory[h] = Latest

\* the operator's tab wrote the status, the event has not reached the
\* display yet, and the tick has brought the new value to the display and to
\* the other provider of the operator's tab
C5_Witness ==
  /\ slot = "STATUS"
  /\ storage = serialize(Doc(<<1>>))
  /\ pending["display"] # <<>>
  /\ \A h \in Handles : sincePoll[h] = "polled" /\ inMemory[h] = Doc(<<1>>)

\* a step of the display's tab: a call of one of its providers, a tick of
\* one of them, or a storage event dispatched there
DisplayStep ==
  \/ \E h \in Handles :
       /\ TabOf(h) = "display"
       /\ \/ \E d \in 1..MaxDoc : Update(h, d)
          \/ Clear(h)
          \/ PollTick(h)
  \/ Dispatch("display")

\* C6: update or clear through a read-only provider changes neither the
\* stored item nor the provider's value; every provider of the display is
\* read-only, and no step of the display's tab changes the stored item
C6_ReadOnlyNeverWrites ==
  [][/\ \A h \in Handles :
          /\ ReadOnly(h, slot)
          /\ \/ \E d \in 1..MaxDoc : Update(h, d)
             \/ Clear(h)
          => storage' = storage /\ inMemory'[h] = inMemory[h]
     /\ \A h \in Handles, key \in Keys : TabOf(h) = "display" => ReadOnly(h, key)
     /\ DisplayStep => storage' = storage]_vars

\* the People dialog stored a value of the people; the display got it from
\* the storage event and the Remote screen from its tick, both read-only for
\* that key
C6_Witness ==
  /\ slot = "PEOPLE"
  /\ storage = serialize(Doc(<<1>>))
  /\ inMemory["PeopleDialog"] = Doc(<<1>>)
  /\ sincePoll["Player"] = "written" /\ inMemory["Player"] = Doc(<<1>>)
  /\ sincePoll["Remote"] = "polled" /\ inMemory["Remote"] = Doc(<<1>>)
  /\ pending["display"] = <<>>

\* no character of the pool is unused and matches the filters of cfg
NoneAvailable(st, cfg) ==
  \A i \in 1..Len(st.characters) :
    \/ Includes(st.usedCharacters, createCharacterId(st.characters[i]))
    \/ ~matchesTagFilters(st.characters[i], SelectedTagsOf(cfg))

EmptySelection(cfg) ==
  Len(cfg.selectedDifficulties) = 0 \/ Len(cfg.selectedCategories) = 0

\* C7: start in prepping with no available character (empty pool, empty
\* filter selection, no match, every match used) is refused: the state is
\* unchanged
C7_StartRefused ==
  state.phase = "prepping" /\ (EmptySelection(config) \/ NoneAvailable(state, config)) =>
    \A rand \in Rands : StartClicked(state, config, rand) = state

\* characters are loaded and match the selection, but every match is used
C7_Witness ==
  /\ state.phase = "prepping"
  /\ ~EmptySelection(config)
  /\ \E i \in 1..Len(state.characters) : MatchesSelection(state.characters[i], config)
  /\ NoneAvailable(state, config)

\* C8: confirm is refused, the state unchanged, when there is no current
\* character or the current character does not match the filters active at
\* that time
C8_ConfirmRefused ==
  \/ state.currentCharacter = NullCharacter
  \/ ~matchesTagFilters(state.currentCharacter, SelectedTagsOf(config))
  => ConfirmClicked(state, config) = state

\* the filters were changed after the roll and the rolled character no longer
\* matches them
C8_Witness ==
  /\ state.phase = "choosing"
  /\ state.currentCharacter # NullCharacter
  /\ ~matchesTagFilters(state.currentCharacter, SelectedTagsOf(config))

\* C9: completing a round before the last one leads to choosing with the
\* round number one higher and a newly rolled character; completing the last
\* round leads to stopping
C9_RoundCompletion ==
  [][ AwardStep =>
        /\ state.currentRound < config.numberOfRounds =>
             /\ state'.phase = "choosing"
             /\ state'.currentRound = state.currentRound + 1
             /\ state'.currentCharacter # NullCharacter
             /\ ~Includes(state'.usedCharacters, createCharacterId(state'.currentCharacter))
        /\ state.currentRound = config.numberOfRounds => state'.phase = "stopping" ]_vars

\* C10: an award in guessing stops the timer, marks the shown character used
\* and completes the round: the phase afterwards is choosing or stopping
C10_AwardCompletesRound ==
  [][ AwardStep /\ state.currentCharacter # NullCharacter =>
        /\ ~state'.isTimerRunning
        /\ Includes(state'.usedCharacters, createCharacterId(state.currentCharacter))
        /\ state'.phase \in {"choosing", "stopping"} ]_vars

\* the scores of new are those of old, plus points for the team at teamIndex
ScoresPlus(old, new, cfg, teamIndex, points) ==
  \A i \in 0..(Len(cfg.teamNames) - 1) :
    ScoreOf(new.scores, cfg.teamNames[i + 1]) =
      ScoreOf(old.scores, cfg.teamNames[i + 1]) + (IF i = teamIndex THEN points ELSE 0)

\* new is the next round's choosing, or stopping after the last round
RoundAdvanced(old, new) ==
  IF old.currentRound >= old.config.numberOfRounds
  THEN new.phase = "stopping"
  ELSE new.phase = "choosing" /\ new.currentRound = old.currentRound + 1

\* C11, the scores: an award to a team adds the turn's points to that team's
\* score and leaves the other teams' scores as they are; an award to no one
\* in the free-for-all leaves every score as it is
C11_AwardScores ==
  state.phase = "guessing" =>
    \A rand \in Rands :
      /\ state.turnType = "team" /\ state.currentTeamIndex # NullIndex =>
           ScoresPlus(state, AfterUpdate(AwardClicked(state, config, NullIndex, rand)),
                      config, state.currentTeamIndex, getTurnPoints(state))
      /\ state.turnType = "free-for-all" =>
           /\ \A teamIndex \in 0..(Len(config.teamNames) - 1) :
                ScoresPlus(state, AfterUpdate(AwardClicked(state, config, teamIndex, rand)),
                           config, teamIndex, getTurnPoints(state))
           /\ ScoresPlus(state, AfterUpdate(NoPointsClicked(state, config, rand)),
                         config, NullIndex, 0)

\* C11: an award to a team adds the turn's points to that team's score and
\* changes no other score; an award to no one in the free-for-all changes no
\* score, marks the shown character used and advances the round
C11_AwardFrame ==
  /\ C11_AwardScores
  /\ state.phase = "guessing" /\ state.turnType = "free-for-all"
       /\ state.currentCharacter # NullCharacter =>
       \A rand \in Rands :
         LET new == AfterUpdate(NoPointsClicked(state, config, rand))
         IN  /\ Includes(new.usedCharacters, createCharacterId(state.currentCharacter))
             /\ RoundAdvanced(state, new)

\* the fields an award works on are the same in old and new
AwardFieldsKept(old, new) ==
  /\ new.scores = old.scores
  /\ new.gameHistory = old.gameHistory
  /\ new.usedCharacters = old.usedCharacters
  /\ new.currentRound = old.currentRound
  /\ new.currentTurn = old.currentTurn
  /\ new.currentTeamIndex = old.currentTeamIndex
  /\ new.turnType = old.turnType
  /\ new.phase = old.phase

TeamIndexes == {NullIndex} \cup (0..(Len(config.teamNames) - 1))

\* C12: outside guessing every award handler, and in guessing the handler of
\* the other turn type, leaves scores, history, used ids, round, turn fields
\* and phase as they are
C12_AwardRefused ==
  \A rand \in Rands, teamIndex \in TeamIndexes :
    /\ state.phase # "guessing" \/ state.turnType # "team" =>
         /\ AwardFieldsKept(state, AfterUpdate(onCorrectAnswer(state, rand)))
         /\ AwardFieldsKept(state, AfterUpdate(onIncorrectAnswer(state)))
    /\ state.phase # "guessing" \/ state.turnType # "free-for-all" =>
         AwardFieldsKept(state, AfterUpdate(handleAwardFreeForAll(state, config, teamIndex, rand)))

\* a team's turn in guessing with the countdown running and points already
\* scored in an earlier round
C12_Witness ==
  /\ state.phase = "guessing"
  /\ state.turnType = "team"
  /\ state.currentTeamIndex # NullIndex
  /\ state.isTimerRunning
  /\ Len(state.gameHistory) > 0

\* 'No Points' in a team's turn
UnsuccessfulTeamTurn ==
  /\ state.phase = "guessing"
  /\ state.turnType = "team"
  /\ \E rand \in Rands : state' = AfterUpdate(NoPointsClicked(state, config, rand))

\* C13, the rotation: an unsuccessful turn of a team but the last passes the
\* turn to the next team, and the last team's starts the free-for-all
NextTurnInOrder ==
  UnsuccessfulTeamTurn =>
    IF state.currentTeamIndex + 1 < Len(config.teamNames)
    THEN /\ state'.turnType = "team"
         /\ state'.currentTeamIndex = state.currentTeamIndex + 1
    ELSE state'.turnType = "free-for-all"

\* C13, the end: the free-for-all lasts until the round completes
FreeForAllLasts ==
  /\ state.phase = "guessing" /\ state.turnType = "free-for-all"
  /\ state'.phase = "guessing" /\ state'.currentRound = state.currentRound
  => state'.turnType = "free-for-all"

\* C13, the start: the guessing of a round begins with the first team's turn
FirstTurnIsTeamZero ==
  state.phase = "choosing" /\ state'.phase = "guessing" =>
    state'.turnType = "team" /\ state'.currentTeamIndex = 0

\* C13: in every round the unsuccessful team turns visit the teams 0, 1, ...,
\* N-1 in order, once each, then the free-for-all begins and lasts until the
\* round completes
C13_RoundRobin ==
  [][FirstTurnIsTeamZero /\ NextTurnInOrder /\ FreeForAllLasts]_vars

\* char holds, for every tag key with a non-empty selection, one of the
\* selected values
HoldsSelected(char, selectedTags) ==
  \A tagKey \in TagKeys :
    tagKey \in DOMAIN selectedTags /\ selectedTags[tagKey] # <<>> =>
      /\ tagKey \in DOMAIN char.tags
      /\ SetOf(char.tags[tagKey]) \cap SetOf(selectedTags[tagKey]) # {}

\* C14: matchesTagFilters is true exactly when the character holds, for every
\* tag key with a non-empty selection, at least one of the selected values;
\* a missing key or an empty list is no constraint, and a character without
\* values for a key with a non-empty selection does not match
C14_MatchesTagFilters ==
  probe.matches = HoldsSelected(probe.character, probe.selectedTags)

\* a character with both categories and no difficulty matches category A
\* under an empty difficulty list
C14_Witness ==
  /\ probe.matches
  /\ Len(TagValuesOf(probe.character, "category")) = 2
  /\ "difficulty" \notin DOMAIN probe.character.tags
  /\ probe.selectedTags = [category |-> << <<"A">> >>, difficulty |-> <<>>]

\* the tag key whose list a step has replaced had a non-empty list
WidenedFromSome ==
  \A tagKey \in DOMAIN probe.selectedTags :
    probe'.selectedTags[tagKey] # probe.selectedTags[tagKey] =>
      probe.selectedTags[tagKey] # <<>>

\* C15 as stated: replacing the list of one tag key by a list with the same
\* values and more never turns a match into a non-match
C15_WideningKeepsMatch ==
  [][Widen /\ probe.matches => probe'.matches]_vars

\* C15: replacing the non-empty list of one tag key by a list with the same
\* values and more never turns a match into a non-match
C15_WideningSomeKeepsMatch ==
  [][Widen /\ WidenedFromSome /\ probe.matches => probe'.matches]_vars

\* a character with both categories matches after the selection of category
\* A was widened to A and B
C15_Witness ==
  /\ probe.matches
  /\ Len(TagValuesOf(probe.character, "category")) = 2
  /\ "category" \in DOMAIN probe.selectedTags
  /\ Len(probe.selectedTags["category"]) = 2

\* the entries of the pool of five that are unused and hold the selected values
Expected(i) ==
  /\ createCharacterId(PoolOfFive[i]) \notin SetOf(probe.usedCharacters)
  /\ HoldsSelected(PoolOfFive[i], probe.selectedTags)

\* C16: getAvailableCharacters returns exactly the pool entries whose id is
\* not used and that match the selection, each once; a character with
\* several categories is returned when one of them is selected, so category A
\* alone yields the three characters of the pool of five that hold A
C16_AvailableCharacters ==
  /\ \A i \in 1..Len(PoolOfFive) : Expected(i) <=> PoolOfFive[i] \in SetOf(probe.available)
  /\ SetOf(probe.available) \subseteq SetOf(PoolOfFive)
  /\ Len(probe.available) = Cardinality(SetOf(probe.available))
  /\ probe.usedCharacters = <<>> /\ probe.selectedTags = [category |-> << <<"A">> >>] =>
       probe.available = SubSeq(PoolOfFive, 1, 3)

\* under category A, with the first of the three characters holding A used,
\* the two others are returned, both holding B as well
C16_Witness ==
  /\ probe.selectedTags = [category |-> << <<"A">> >>]
  /\ probe.usedCharacters = <<createCharacterId(PoolOfFive[1])>>
  /\ probe.available = SubSeq(PoolOfFive, 2, 3)

\* C17: two characters that differ only in the order of their prop keys or
\* in the order of their category values have the same id
C17_IdIgnoresOrder ==
  [][ReorderProps \/ ReorderCategories => probe'.id = probe.id]_vars

\* a character with two props, the later key first, and two categories, the
\* later value first: its id lists them in sorted order
C17_Witness ==
  /\ PropKeysOf(probe.character) = << <<"b">>, <<"a">> >>
  /\ TagValuesOf(probe.character, "category") = << <<"B">>, <<"A">> >>
  /\ probe.id = <<"a", "_", "b", "_", "b", "_", "a", "_", "b">>

\* C18: update of a value whose text is the stored one calls neither setItem
\* nor the other tabs; of two updates of the same value in a row the second
\* one does neither
C18_SkipsUnchanged ==
  \A h \in Handles, d \in 1..MaxDoc :
    ~ReadOnly(h, slot) =>
      LET first  == update(ReadOnly(h, slot), inMemory[h], storage, Doc(<<d>>))
          second == update(ReadOnly(h, slot), first.value, first.saved, Doc(<<d>>))
      IN  /\ storage = serialize(Doc(<<d>>)) =>
               ~first.wrote /\ ~Notifies(first, storage) /\ first.saved = storage
          /\ ~second.wrote /\ ~Notifies(second, first.saved) /\ second.saved = first.saved

\* the Remote screen stored a status and the display has one event waiting;
\* the People dialog, writable too, has not yet seen the value
C18_Witness ==
  /\ slot = "STATUS"
  /\ storage = serialize(Doc(<<1>>))
  /\ inMemory["Remote"] = Doc(<<1>>)
  /\ inMemory["PeopleDialog"] # Doc(<<1>>)
  /\ pending["display"] = <<serialize(Doc(<<1>>))>>

\* the provider h reads a text that cannot be deserialized: at mount, on a
\* poll tick, or as the newValue of a storage event
AttachesCorrupt(h) == IsCorrupt(storage) /\ Attach(h)
PollsCorrupt(h) == IsCorrupt(storage) /\ PollTick(h)
HearsCorrupt(h) ==
  /\ pending[TabOf(h)] # <<>>
  /\ IsCorrupt(Head(pending[TabOf(h)]))
  /\ Dispatch(TabOf(h))

\* C19: a read of an item that cannot be deserialized, at mount, on a
\* storage event or on a poll tick, leaves the provider with the default
\* value and the item as it was
C19_CorruptReadsDefault ==
  [][\A h \in Handles :
       (AttachesCorrupt(h) \/ PollsCorrupt(h) \/ HearsCorrupt(h)) =>
          inMemory'[h] = DefaultOf(slot) /\ storage' = storage]_vars

\* C19, the part at mount: the provider starts with the default value, and
\* no read of any kind changes the item
C19_CorruptAttachReadsDefault ==
  [][\A h \in Handles :
       /\ AttachesCorrupt(h) => inMemory'[h] = DefaultOf(slot)
       /\ (AttachesCorrupt(h) \/ PollsCorrupt(h) \/ HearsCorrupt(h)) =>
             storage' = storage]_vars

\* C19, what the listener and the poll do: the provider keeps the value it had
C19_CorruptReadKeepsValue ==
  [][\A h \in Handles :
       (PollsCorrupt(h) \/ HearsCorrupt(h)) => inMemory'[h] = inMemory[h]]_vars

\* the writable providers of the other tabs
WritersElsewhere(h) ==
  {g \in DOMAIN inMemory : TabOf(g) # TabOf(h) /\ ~ReadOnly(g, slot)}

\* C20: a write through a writable provider leaves the item holding exactly
\* the written value, and a write of another tab that follows it leaves the
\* item holding exactly its own value, with no field of the one before
C20_LastWriteWins ==
  [][\A h \in DOMAIN inMemory, v \in WholeValues :
       (~ReadOnly(h, slot) /\ Write(h, v)) =>
          /\ storage' = serialize(v)
          /\ deserialize(storage').value = v
          /\ \A g \in WritersElsewhere(h), w \in WholeValues :
               LET later == update(ReadOnly(g, slot), inMemory'[g], storage', w)
               IN  /\ later.saved = serialize(w)
                   /\ deserialize(later.saved).value = w]_vars

\* the Remote screen wrote [1,2], then the Config screen wrote [2,1] before
\* hearing of it: the item is [2,1] and each tab has the other's event waiting
C20_Witness ==
  /\ slot = "CONFIG"
  /\ DOMAIN inMemory = Writers
  /\ storage = serialize(Doc(<<2, 1>>))
  /\ inMemory["Remote"] = Doc(<<1, 2>>)
  /\ inMemory["ConfigScreen"] = Doc(<<2, 1>>)
  /\ pending["settings"] = <<serialize(Doc(<<1, 2>>))>>
  /\ pending["operator"] = <<serialize(Doc(<<2, 1>>))>>

\* the game is being played: End is offered
Playing(st) == st.phase \in {"choosing", "guessing"}

\* C21, without the end timestamp: End in choosing or guessing gives prepping,
\* an inactive game, no current character or category and a timer not running
C21_EndClearsRound ==
  Playing(state) =>
    LET new == AfterUpdate(EndClicked(state))
    IN  /\ new.phase = "prepping"
        /\ ~new.isGameActive
        /\ new.currentCharacter = NullCharacter
        /\ new.currentCategory = NullCategory
        /\ ~new.isTimerRunning

\* C21: End in choosing or guessing gives prepping, an inactive game, no
\* current character or category, and the timer stopped: not running and
\* with no end timestamp
C21_EndStopsGame ==
  /\ C21_EndClearsRound
  /\ Playing(state) => AfterUpdate(EndClicked(state)).timerEndsAt = NullTime

\* C22: End leaves the used ids as they were, and a game started afterwards
\* rolls no character whose id is among them
C22_EndKeepsUsed ==
  /\ Playing(state) =>
       LET new == AfterUpdate(EndClicked(state))
       IN  /\ new.usedCharacters = state.usedCharacters
           /\ \A i \in 1..Len(getAvailableCharacters(new)) :
                ~Includes(state.usedCharacters,
                          createCharacterId(getAvailableCharacters(new)[i]))
  /\ state.phase = "prepping" =>
       \A rand \in Rands :
         LET started == AfterUpdate(StartClicked(state, config, rand))
         IN  started.currentCharacter # NullCharacter =>
               ~Includes(state.usedCharacters, createCharacterId(started.currentCharacter))

\* a game was ended after a round: back in prepping with the round counter
\* and the used ids of that game
C22_Witness ==
  /\ state.phase = "prepping"
  /\ ~state.isGameActive
  /\ state.currentRound > 0
  /\ Len(state.usedCharacters) > 0
  /\ Len(getAvailableCharacters(state)) > 0

C24_EndThenReset ==
  Playing(state) =>
    LET ended == AfterUpdate(EndClicked(state))
        reset == AfterUpdate(ResetClicked(ended))
    IN  /\ ended.phase = "stopping"
        /\ reset.phase = "prepping"
        /\ reset.gameHistory = <<>>
        /\ reset.scores = <<>>
        /\ reset.usedCharacters = <<>>
        /\ reset.currentRound = 0

\* C24, what End gives instead: prepping, where Reset is not offered and the
\* rounds, scores and used ids of the ended game stay
C24_EndGivesPrepping ==
  Playing(state) =>
    LET ended == AfterUpdate(EndClicked(state))
    IN  /\ ended.phase = "prepping"
        /\ ResetDisabled(ended)
        /\ AfterUpdate(ResetClicked(ended)) = ended
        /\ ended.gameHistory = state.gameHistory
        /\ ended.scores = state.scores
        /\ ended.currentRound = state.currentRound

\* the fields no timer operation works on are the same in old and new
GameKept(old, new) ==
  /\ new.scores = old.scores
  /\ new.gameHistory = old.gameHistory
  /\ new.usedCharacters = old.usedCharacters
  /\ new.currentRound = old.currentRound
  /\ new.phase = old.phase
  /\ new.currentTurn = old.currentTurn
  /\ new.currentTeamIndex = old.currentTeamIndex
  /\ new.turnType = old.turnType

\* the instants the clock of a run can show
ClockTimes == {k * ClockStep : k \in 0..MaxClockSteps}

\* C25: the countdown's callback that computes a remaining time of 0 stops
\* the timer (not running, no end timestamp), and a stop, by that callback or
\* by the operator's button, changes no score, no round of the history, no
\* used id, and neither the round, the phase nor the turn fields
C25_TimerStopKeepsGame ==
  state.isTimerRunning /\ state.timerEndsAt # NullTime =>
    /\ \A t \in ClockTimes :
         LET new == AfterUpdate(TimerCallback(state, t))
         IN  /\ calculateTimeRemaining(state, t) = 0 =>
                  ~new.isTimerRunning /\ new.timerEndsAt = NullTime
             /\ GameKept(state, new)
    /\ LET stopped == AfterUpdate(TimerClicked(state, now))
       IN  state.phase = "guessing" =>
             /\ ~stopped.isTimerRunning
             /\ stopped.timerEndsAt = NullTime
             /\ GameKept(state, stopped)

\* a timer ran out: the clock has moved by the one step a running timer
\* needs, no remaining time was stored on the way, and the timer is stopped
\* with the round still open
C25_Witness ==
  /\ state.phase = "guessing"
  /\ state.gameHistory = <<>>
  /\ now = ClockStep
  /\ ~state.isTimerRunning
  /\ state.timerEndsAt = NullTime
  /\ state.timeRemaining = 0

\* the instants from now on at which a display or the countdown recomputes
LaterInstants == {now + k * ClockStep : k \in 0..(MaxClockSteps + 1)}

ProbeScoreInputs == ScoreInputs \cup { <<"1", "a", "b">>, <<"-">> }

\* the whole text is a decimal number: a sign or none, digits, and a point
\* with digits or none
IsNumber(text) ==
  LET signed   == text # <<>> /\ text[1] \in {"+", "-"}
      body     == IF signed THEN Tail(text) ELSE text
      unsigned == UnsignedPrefix(body)
  IN  unsigned.found /\ unsigned.length = Len(body)

\* the state after the cell of round i and team is edited to value
Edited(i, team, value) ==
  AfterUpdate(handleScoreChange(state, config, state.gameHistory[i].round, team, value))

TablesKept(new) ==
  new.gameHistory = state.gameHistory /\ new.scores = state.scores

Started(rand) == AfterUpdate(StartClicked(state, config, rand))

\* C28: a Start in prepping that succeeds gives choosing in round 1 with an
\* empty history, a score of 0 for each configured team and for no one else,
\* an active game, a current character that is loaded, matches the filters
\* and is not used, and that character's category as the current category
C28_StartInitialises ==
  state.phase = "prepping" =>
    \A rand \in Rands :
      LET new == Started(rand)
      IN  new.phase # "prepping" =>
            /\ new.phase = "choosing"
            /\ new.currentRound = 1
            /\ new.gameHistory = <<>>
            /\ DOMAIN new.scores = TeamSet(config.teamNames)
            /\ \A team \in DOMAIN new.scores : new.scores[team] = 0
            /\ new.isGameActive
            /\ \E i \in 1..Len(state.characters) :
                  new.currentCharacter = state.characters[i]
            /\ matchesTagFilters(new.currentCharacter, SelectedTagsOf(config))
            /\ ~Includes(state.usedCharacters, createCharacterId(new.currentCharacter))
            /\ new.currentCategory = CategoryOf(new.currentCharacter)

\* a game was ended with rounds in its history, and Start can roll a character
C28_Witness ==
  /\ state.phase = "prepping"
  /\ Len(state.gameHistory) > 0
  /\ \E team \in DOMAIN state.scores : state.scores[team] > 0
  /\ \E rand \in Rands : Started(rand).phase = "choosing"

\* the first count entries of the two arrays are the same
SameFirst(old, new, count) ==
  /\ Len(old) >= count /\ Len(new) >= count
  /\ \A i \in 1..count : new[i] = old[i]

\* the team counts the input can give, up to the model's largest
TeamCounts == {TeamCountOf(value) : value \in TeamCountInputs} \cap (2..MaxTeams)

\* C29: in the configuration editor nthTurnDurations, nthTurnScores and teamNames always
\* have the same length, and a smaller team count cuts the three lists to that count and
\* keeps their first entries as they were
C29_ListsInLockstep ==
  /\ Len(config.nthTurnDurations) = Len(config.teamNames)
  /\ Len(config.nthTurnScores) = Len(config.teamNames)
  /\ \A count \in TeamCounts :
       count < Len(config.teamNames) =>
         LET new == syncTeams(config, count)
         IN  /\ Len(new.teamNames) = count
             /\ Len(new.nthTurnDurations) = count
             /\ Len(new.nthTurnScores) = count
             /\ SameFirst(config.teamNames, new.teamNames, count)
             /\ SameFirst(config.nthTurnDurations, new.nthTurnDurations, count)
             /\ SameFirst(config.nthTurnScores, new.nthTurnScores, count)

\* four teams after the count was raised, with edited entries where a cut to two would fall
C29_Witness ==
  /\ Len(config.teamNames) = 4
  /\ config.teamNames[4] = TeamLabel(4)
  /\ config.nthTurnDurations[2] # config.nthTurnDurations[3]
  /\ config.nthTurnScores[2] # config.nthTurnScores[3]
  /\ config.nthTurnScores[4] # DefaultTurnScore

\* the last entry of a non-empty array
Last(array) == array[Len(array)]

\* C30: a larger team count keeps the entries of the three lists and fills each of the
\* two per-turn lists with that list's own last value, or with a fixed default when the
\* list was empty
C30_GrowPadsWithLast ==
  \A count \in TeamCounts :
    count > Len(config.teamNames) =>
      LET new == syncTeams(config, count)
          old == Len(config.teamNames)
      IN  /\ SameFirst(config.teamNames, new.teamNames, old)
          /\ SameFirst(config.nthTurnDurations, new.nthTurnDurations, Len(config.nthTurnDurations))
          /\ SameFirst(config.nthTurnScores, new.nthTurnScores, Len(config.nthTurnScores))
          /\ \A i \in (Len(config.nthTurnDurations) + 1)..Len(new.nthTurnDurations) :
               new.nthTurnDurations[i] = IF config.nthTurnDurations = <<>> THEN DefaultTurnDuration
                                         ELSE Last(config.nthTurnDurations)
          /\ \A i \in (Len(config.nthTurnScores) + 1)..Len(new.nthTurnScores) :
               new.nthTurnScores[i] = IF config.nthTurnScores = <<>> THEN DefaultTurnScore
                                      ELSE Last(config.nthTurnScores)

\* what a larger team count does: the entries are kept, the new durations are the last
\* duration, the new scores are 0.5 whatever the last score was
C30_GrowPadsScoresWithHalf ==
  \A count \in TeamCounts :
    count > Len(config.teamNames) =>
      LET new == syncTeams(config, count)
          old == Len(config.teamNames)
      IN  /\ Len(new.teamNames) = count
          /\ Len(new.nthTurnDurations) = count
          /\ Len(new.nthTurnScores) = count
          /\ SameFirst(config.teamNames, new.teamNames, old)
          /\ SameFirst(config.nthTurnDurations, new.nthTurnDurations, old)
          /\ SameFirst(config.nthTurnScores, new.nthTurnScores, old)
          /\ \A i \in (old + 1)..count :
               /\ new.teamNames[i] = TeamLabel(i)
               /\ new.nthTurnDurations[i] = Last(config.nthTurnDurations)
               /\ new.nthTurnScores[i] = DefaultTurnScore

\* choosing with nothing left to roll
NothingToRoll(st) == st.phase = "choosing" /\ Len(getAvailableCharacters(st)) = 0

\* C31: a re-roll in choosing with no character available leaves the state unchanged
\* and is reported to the operator
C31_RerollFailureReported ==
  \A rand \in Rands :
    NothingToRoll(state) =>
      /\ handleRerollCharacter(state, rand) = state
      /\ handleRerollCharacterAlerts(state, rand)

\* what the code does in choosing with no character available: the Re-roll button is
\* disabled, and the handler leaves the state unchanged and shows no alert, because the
\* state it gets back still holds the current character
C31_RerollFailureSilent ==
  \A rand \in Rands :
    NothingToRoll(state) =>
      /\ state.currentCharacter # NullCharacter
      /\ RerollDisabled(state)
      /\ handleRerollCharacter(state, rand) = state
      /\ AfterUpdate(RerollClicked(state, rand)) = state
      /\ ~handleRerollCharacterAlerts(state, rand)

\* C32: a re-roll in choosing with more than one character available gives a
\* currentCharacter other than the one before
C32_RerollGivesDifferent ==
  \A rand \in Rands :
    (state.phase = "choosing" /\ Len(getAvailableCharacters(state)) > 1) =>
      AfterUpdate(RerollClicked(state, rand)).currentCharacter # state.currentCharacter

\* what the code does: the re-roll gives one of the available characters, the current
\* one among them
C32_RerollGivesAvailable ==
  \A rand \in Rands :
    (state.phase = "choosing" /\ Len(getAvailableCharacters(state)) > 0) =>
      LET new == AfterUpdate(RerollClicked(state, rand))
      IN  /\ \E i \in 1..Len(getAvailableCharacters(state)) :
               new.currentCharacter = getAvailableCharacters(state)[i]
          /\ new.currentCategory = CategoryOf(new.currentCharacter)
          /\ [new EXCEPT !.currentCharacter = state.currentCharacter,
                         !.currentCategory = state.currentCategory] = state

\* the characters of the pool of five that match the selection and hold the category
Holding(category) ==
  {i \in 1..Len(PoolOfFive) :
     /\ matchesTagFilters(PoolOfFive[i], probe.selectedTags)
     /\ Includes(TagValuesOf(PoolOfFive[i], "category"), category)}

\* those of them whose id is not among the used ids
HoldingUnused(category) ==
  {i \in Holding(category) : ~Includes(probe.usedCharacters, createCharacterId(PoolOfFive[i]))}

\* the category values of the pool of five
PoolCategories == UNION {SetOf(TagValuesOf(PoolOfFive[i], "category")) : i \in 1..Len(PoolOfFive)}

\* C33: for every category value getCategories gives totalCharacters = the number of
\* characters that match the filters and hold the value, and remainingCharacters = the
\* number of those whose id is not used; a character is counted under each of its values
C33_CategoryCounts ==
  \A category \in PoolCategories :
    /\ CountsOf(probe.categories, category).totalCharacters = Cardinality(Holding(category))
    /\ CountsOf(probe.categories, category).remainingCharacters = Cardinality(HoldingUnused(category))

\* what getCategories gives: remainingCharacters as claimed, totalCharacters larger by
\* the number of remaining ones, and one entry per category value that is held
C33_TotalCountsRemainingTwice ==
  /\ \A category \in PoolCategories :
       /\ CountsOf(probe.categories, category).remainingCharacters = Cardinality(HoldingUnused(category))
       /\ CountsOf(probe.categories, category).totalCharacters =
            Cardinality(Holding(category)) + Cardinality(HoldingUnused(category))
  /\ \A i, j \in 1..Len(probe.categories) :
       /\ Holding(probe.categories[i].name) # {}
       /\ probe.categories[i].name = probe.categories[j].name => i = j

\* C34: createCharacterId leaves the character it is given as it was, the order of
\* its category values included
C34_IdLeavesCharacter ==
  probe.after = probe.character

\* what createCharacterId leaves: the same props and tags with the category values in
\* sorted order, and a character whose id is the one just computed
C34_IdSortsCategories ==
  /\ probe.after.props = probe.character.props
  /\ DOMAIN probe.after.tags = DOMAIN probe.character.tags
  /\ \A tagKey \in DOMAIN probe.character.tags :
       probe.after.tags[tagKey] =
         IF tagKey = "category" THEN SortStrings(probe.character.tags[tagKey])
         ELSE probe.character.tags[tagKey]
  /\ createCharacterId(probe.after) = probe.id
  /\ createCharacterIdArgument(probe.after) = probe.after

\* the stored status holds no used id
PersistedUsedEmpty == usedCharacters(deserialize(storage).value) = 0

\* C35: once 'Reset Used' has emptied the persisted usedCharacters, it stays empty: no
\* write of the Remote screen brings the used ids back (no round is completed here)
C35_ResetUsedStays ==
  [][PersistedUsedEmpty => PersistedUsedEmpty']_vars

\* what holds: 'Reset Used' empties the persisted usedCharacters, a poll tick leaves the
\* item alone, and a write of the Remote screen keeps the list empty when the Remote
\* screen's own handle holds the empty list, that is, after its poll tick
C35_ResetUsedStaysAfterPoll ==
  [][/\ ResetUsedCharacters => PersistedUsedEmpty'
     /\ (PersistedUsedEmpty /\ usedCharacters(inMemory["Remote"]) = 0) => PersistedUsedEmpty'
     /\ (PersistedUsedEmpty /\ ~PersistedUsedEmpty') =>
          /\ usedCharacters(inMemory["Remote"]) # 0
          /\ storage' = serialize(inMemory'["Remote"])]_vars

\* C36: after a change of CONFIG the config sync writes STATUS once, with nothing but
\* the config replaced, and then the effects are at rest with STATUS.config = CONFIG:
\* run again, none of them writes
C36_ConfigSyncSettles ==
  [][/\ state'.config = config'
     /\ ConfigSyncEffect(state', config') = state'
     /\ Effects(state', config', savedPeople') = state'
     /\ config' # config =>
          /\ ConfigSyncEffect(state, config') = [state EXCEPT !.config = config']
          /\ state' = TimerEffect(CharacterSyncEffect(ConfigSyncEffect(state, config'), savedPeople))
          /\ [state' EXCEPT !.config = state.config] = state]_vars

\* a running game whose filters and number of rounds were changed and have reached the state
C36_Witness ==
  /\ state.phase = "guessing"
  /\ state.config = config
  /\ config.numberOfRounds # initialGameConfig.numberOfRounds
  /\ state.currentCharacter # NullCharacter
  /\ ~MatchesSelection(state.currentCharacter, config)

\* C37: while a game is in progress gameHistory holds exactly currentRound - 1 results,
\* with the round numbers 1 .. currentRound - 1 in order, each once
C37_OneResultPerRound ==
  Playing(state) =>
    /\ Len(state.gameHistory) = state.currentRound - 1
    /\ \A i \in 1..Len(state.gameHistory) : state.gameHistory[i].round = i

\* what holds while a game is in progress: every round before the current one has a
\* result, the round numbers are in order and none is beyond the current round; a round
\* can have more than one result
C37_ResultsInRoundOrder ==
  Playing(state) =>
    /\ state.currentRound >= 1
    /\ Len(state.gameHistory) >= state.currentRound - 1
    /\ \A i \in 1..Len(state.gameHistory) : state.gameHistory[i].round \in 1..state.currentRound
    /\ \A i, j \in 1..Len(state.gameHistory) :
         i < j => state.gameHistory[i].round <= state.gameHistory[j].round
    /\ \A round \in 1..(state.currentRound - 1) :
         \E i \in 1..Len(state.gameHistory) : state.gameHistory[i].round = round

\* C38: while a game is in progress 1 <= currentRound <= config.numberOfRounds, also
\* after a change of numberOfRounds during the game
C38_RoundWithinConfigured ==
  Playing(state) =>
    /\ 1 <= state.currentRound
    /\ state.currentRound <= state.config.numberOfRounds
    /\ state.currentRound <= config.numberOfRounds

\* what holds: the round counter is at least 1 while a game is in progress, and a step
\* that raises it, or starts the game, leaves it within the configured number of rounds
C38_RoundRaisedWithinConfigured ==
  [][/\ Playing(state') => state'.currentRound >= 1
     /\ (Playing(state') /\ state'.currentRound # state.currentRound) =>
          /\ state'.currentRound <= config'.numberOfRounds
          /\ state'.currentRound <= state'.config.numberOfRounds
     /\ (Playing(state') /\ state'.currentRound > config'.numberOfRounds) =>
          config'.numberOfRounds < state.config.numberOfRounds \/ state.currentRound > config.numberOfRounds]_vars

\* C39: markCharacterUsed with an id that is already used returns the state unchanged,
\* marking twice equals marking once, and usedCharacters never holds an id twice
C39_MarkIsIdempotent ==
  /\ \A i, j \in 1..Len(state.usedCharacters) :
       state.usedCharacters[i] = state.usedCharacters[j] => i = j
  /\ \A k \in 1..Len(state.characters) :
       LET characterId == createCharacterId(state.characters[k])
           once        == markCharacterUsed(state, characterId)
       IN  /\ markCharacterUsed(once, characterId) = once
           /\ Includes(state.usedCharacters, characterId) => once = state
           /\ ~Includes(state.usedCharacters, characterId) =>
                once = [state EXCEPT !.usedCharacters = Append(state.usedCharacters, characterId)]

\* two rounds completed, the characters of both marked, each mark made once or more
C39_Witness ==
  /\ Len(state.usedCharacters) = 2
  /\ Len(state.gameHistory) = 2
  /\ \E k \in 1..Len(state.characters) :
       /\ Includes(state.usedCharacters, createCharacterId(state.characters[k]))
       /\ state.gameHistory[2].character = state.characters[k]

\* C40: the value a provider holds is the default or a value that was persisted under
\* the key before, whole: never a value put together from two writes
C40_HeldValueWasPersisted ==
  \A h \in DOMAIN inMemory :
    inMemory[h] = DefaultOf(slot) \/ inMemory[h] \in probe

\* two writes or more were made; the settings tab made the latest, which the operator
\* tab has not been told of yet: each tab holds a persisted value, and not the same
C40_Witness ==
  /\ Cardinality(probe) >= 3
  /\ inMemory["Remote"] \in probe
  /\ inMemory["ConfigScreen"] \in probe
  /\ inMemory["Remote"] # inMemory["ConfigScreen"]
  /\ inMemory["Remote"] # DefaultOf(slot)
  /\ storage = serialize(inMemory["ConfigScreen"])
  /\ pending[TabOf("Remote")] # <<>>
====
